---- MODULE Spec2Model ----
(***************************************************************************)
(* A model of the NetCDF ingestion pipeline of FloatChat:                  *)
(*   data_processing/netcdf_processor.py  (NetCDFProcessor)                *)
(*   database/connection.py               (DatabaseManager)                *)
(*                                                                         *)
(* Python strings that the code lowercases or searches for substrings are  *)
(* sequences of one-character strings, so that str.lower() and the `in`    *)
(* operator are computed rather than assumed.  None is the record NoneV.   *)
(***************************************************************************)
EXTENDS Integers, Sequences, FiniteSets, TLC

VARIABLES
    ds,            \* the opened dataset handed to the resolver/classifier/extractors
    var_type,      \* argument of find_variable
    found,         \* value returned by find_variable ("pending" before the call)
    file_type,     \* value returned by detect_file_type ("pending" before the call)
    metadata,      \* dictionary returned by extract_profile_metadata (Pending before)
    hook,          \* behaviour of validate_measurement_data per level
    measurements,  \* list returned by extract_measurements (Pending before)
    mode,          \* self.mode of the processor
    file_paths,    \* argument of process_multiple_files
    idx,           \* position of the batch loop in file_paths (1-based)
    results,       \* the list process_multiple_files builds
    pc,            \* control point of process_multiple_files / process_file / validate_file
    handles,       \* dataset handles currently open
    opened,        \* number of handles opened so far
    profile_metadata, \* local of process_file
    calls,         \* outcome of every finished process_file call, in call order
    profiles,      \* rows of table argo_profiles (id, file_hash)
    next_id,       \* next value of the SERIAL sequence of argo_profiles.id
    inserts,       \* every finished insert_profile call, in call order
    mode_history,  \* every mode string given to __init__ / set_mode, in call order
    frames,        \* the DataFrame given to the transformer, then each returned one
    ops            \* the DataTransformer methods applied so far, in call order

\* the database holds no profile
DbIdle ==
    /\ profiles = {}
    /\ next_id = 1
    /\ inserts = <<>>

dbVars == <<profiles, next_id, inserts>>

\* the transformer has not been given a DataFrame
TransformerIdle ==
    /\ frames = <<>>
    /\ ops = <<>>

transformerVars == <<frames, ops>>

resolverVars == <<ds, var_type, found, file_type>>

fileVars == <<mode, file_paths, idx, results, pc, handles, opened, profile_metadata, calls>>

vars ==
    <<ds, var_type, found, file_type, metadata, hook, measurements,
      mode, file_paths, idx, results, pc, handles, opened, profile_metadata, calls,
      profiles, next_id, inserts, mode_history, frames, ops>>

---------------------------------------------------------------------------
(* Python string primitives *)

LowerMap ==
    [ A |-> "a", B |-> "b", C |-> "c", D |-> "d", E |-> "e", F |-> "f",
      G |-> "g", H |-> "h", I |-> "i", J |-> "j", K |-> "k", L |-> "l",
      M |-> "m", N |-> "n", O |-> "o", P |-> "p", Q |-> "q", R |-> "r",
      S |-> "s", T |-> "t", U |-> "u", V |-> "v", W |-> "w", X |-> "x",
      Y |-> "y", Z |-> "z" ]

\* str.lower()
lower(s) ==
    [i \in 1..Len(s) |-> IF s[i] \in DOMAIN LowerMap THEN LowerMap[s[i]] ELSE s[i]]

\* a in s  (substring test on strings)
contains(s, a) ==
    \E k \in 0..(Len(s) - Len(a)) : SubSeq(s, k + 1, k + Len(a)) = a

\* x in xs  (membership in a list)
InList(x, xs) == \E i \in 1..Len(xs) : xs[i] = x

Min(S) == CHOOSE m \in S : \A n \in S : m <= n

NoneV == [k |-> "none", v |-> 0]

---------------------------------------------------------------------------
(* NetCDFProcessor.__init__ : static configuration *)

variable_mappings ==
  [ temperature |->
    << <<"T","E","M","P">>,
       <<"T","E","M","P","_","A","D","J","U","S","T","E","D">>,
       <<"t","e","m","p","_","a","d","j","u","s","t","e","d">>,
       <<"t","e","m","p">>,
       <<"t","e","m","p","e","r","a","t","u","r","e">>,
       <<"T">>,
       <<"s","e","a","_","w","a","t","e","r","_","t","e","m","p","e","r","a","t","u","r","e">>,
       <<"T","E","M","P","E","R","A","T","U","R","E">> >>,
    pressure |->
    << <<"P","R","E","S">>,
       <<"P","R","E","S","_","A","D","J","U","S","T","E","D">>,
       <<"p","r","e","s","_","a","d","j","u","s","t","e","d">>,
       <<"p","r","e","s">>,
       <<"p","r","e","s","s","u","r","e">>,
       <<"P">>,
       <<"s","e","a","_","w","a","t","e","r","_","p","r","e","s","s","u","r","e">>,
       <<"P","R","E","S","S","U","R","E">> >>,
    depth |->
    << <<"D","E","P","T","H">>,
       <<"d","e","p","t","h">>,
       <<"z">>,
       <<"Z">>,
       <<"l","e","v","e","l">>,
       <<"L","E","V","E","L">> >>,
    salinity |->
    << <<"P","S","A","L">>,
       <<"P","S","A","L","_","A","D","J","U","S","T","E","D">>,
       <<"p","s","a","l","_","a","d","j","u","s","t","e","d">>,
       <<"p","s","a","l">>,
       <<"s","a","l","i","n","i","t","y">>,
       <<"s","a","l","t">>,
       <<"S">>,
       <<"s","e","a","_","w","a","t","e","r","_","s","a","l","i","n","i","t","y">>,
       <<"S","A","L","I","N","I","T","Y">> >>,
    oxygen |->
    << <<"D","O","X","Y">>,
       <<"D","O","X","Y","_","A","D","J","U","S","T","E","D">>,
       <<"d","o","x","y","_","a","d","j","u","s","t","e","d">>,
       <<"o","x","y","g","e","n">>,
       <<"o","2">>,
       <<"O","2">>,
       <<"d","i","s","s","o","l","v","e","d","_","o","x","y","g","e","n">>,
       <<"O","X","Y","G","E","N">> >>,
    latitude |->
    << <<"L","A","T","I","T","U","D","E">>,
       <<"l","a","t","i","t","u","d","e">>,
       <<"l","a","t">>,
       <<"L","A","T">>,
       <<"y">>,
       <<"Y">> >>,
    longitude |->
    << <<"L","O","N","G","I","T","U","D","E">>,
       <<"l","o","n","g","i","t","u","d","e">>,
       <<"l","o","n">>,
       <<"L","O","N">>,
       <<"x">>,
       <<"X">> >>,
    time |->
    << <<"J","U","L","D">>,
       <<"t","i","m","e">>,
       <<"T","I","M","E">>,
       <<"t">>,
       <<"T">>,
       <<"d","a","t","e">>,
       <<"D","A","T","E">> >> ]
argo_required_variables ==
    << <<"P","R","E","S">>,
       <<"T","E","M","P">>,
       <<"P","S","A","L">> >>
ocean_indicators ==
    << <<"s","e","a","_","w","a","t","e","r">>,
       <<"o","c","e","a","n">>,
       <<"m","a","r","i","n","e">>,
       <<"f","l","o","a","t">>,
       <<"p","r","o","f","i","l","e">> >>
platform_vars ==
    << <<"P","L","A","T","F","O","R","M","_","N","U","M","B","E","R">>,
       <<"p","l","a","t","f","o","r","m","_","n","u","m","b","e","r">>,
       <<"s","t","a","t","i","o","n">>,
       <<"S","T","A","T","I","O","N">>,
       <<"i","d">>,
       <<"I","D">> >>
platform_attrs ==
    << <<"p","l","a","t","f","o","r","m","_","n","u","m","b","e","r">>,
       <<"s","t","a","t","i","o","n","_","i","d">>,
       <<"i","d">> >>
cycle_vars ==
    << <<"C","Y","C","L","E","_","N","U","M","B","E","R">>,
       <<"c","y","c","l","e","_","n","u","m","b","e","r">>,
       <<"p","r","o","f","i","l","e">>,
       <<"P","R","O","F","I","L","E">> >>
lat_attrs ==
    << <<"l","a","t","i","t","u","d","e">>,
       <<"g","e","o","s","p","a","t","i","a","l","_","l","a","t","_","m","i","n">>,
       <<"l","a","t">> >>
lon_attrs ==
    << <<"l","o","n","g","i","t","u","d","e">>,
       <<"g","e","o","s","p","a","t","i","a","l","_","l","o","n","_","m","i","n">>,
       <<"l","o","n">> >>
dc_vars ==
    << <<"D","A","T","A","_","C","E","N","T","R","E">>,
       <<"D","A","T","A","_","C","E","N","T","E","R">>,
       <<"d","a","t","a","_","c","e","n","t","e","r">>,
       <<"s","o","u","r","c","e">>,
       <<"S","O","U","R","C","E">> >>
dc_attrs ==
    << <<"d","a","t","a","_","c","e","n","t","e","r">>,
       <<"s","o","u","r","c","e">>,
       <<"i","n","s","t","i","t","u","t","i","o","n">> >>
main_dims ==
    << <<"N","_","L","E","V","E","L","S">>,
       <<"n","_","l","e","v","e","l","s">>,
       <<"d","e","p","t","h">>,
       <<"t","i","m","e">>,
       <<"l","e","v","e","l">>,
       <<"z">> >>

---------------------------------------------------------------------------
(* Python values held by dataset variables and attributes *)

Num(n) == [k |-> "num", v |-> n]
Str(s) == [k |-> "str", v |-> s]
NaN == [k |-> "nan", v |-> 0]
Pending == [k |-> "pending", v |-> 0]

\* a returned list
List(xs) == [k |-> "list", v |-> xs]

\* the batch processor is not running
FilesIdle ==
    /\ mode = "flexible"
    /\ file_paths = <<>>
    /\ idx = 1
    /\ results = <<>>
    /\ pc = "idle"
    /\ handles = {}
    /\ opened = 0
    /\ profile_metadata = Pending
    /\ calls = <<>>

\* var in ds.variables
HasVar(d, name) == \E j \in 1..Len(d.variables) : d.variables[j].name = name

\* ds[name]
GetVar(d, name) ==
    d.variables[CHOOSE j \in 1..Len(d.variables) : d.variables[j].name = name]

\* first (i, j) in the order of two nested loops, i outer, for which P holds;
\* <<0, 0>> when the loops run to completion
FirstPair(n, m, P(_, _)) ==
    LET hits == {p \in (1..n) \X (1..m) : P(p[1], p[2])}
    IN  IF hits = {} THEN <<0, 0>>
        ELSE CHOOSE p \in hits :
                \A q \in hits : p[1] < q[1] \/ (p[1] = q[1] /\ p[2] <= q[2])

---------------------------------------------------------------------------
(* NetCDFProcessor.find_variable *)

\* mutant: the dataset's variables are scanned first, so the first dataset
\* variable that is an alias wins
DirectMatch_DatasetOrder(d, possible_names) ==
    LET hits == {j \in 1..Len(d.variables) : InList(d.variables[j].name, possible_names)}
    IN  IF hits = {} THEN NoneV ELSE Str(d.variables[Min(hits)].name)

\* "Direct name match": for name in possible_names: if name in ds.variables
DirectMatch(d, possible_names) ==
    LET hits == {i \in 1..Len(possible_names) : HasVar(d, possible_names[i])}
    IN  IF hits = {} THEN NoneV ELSE Str(possible_names[Min(hits)])

\* "Case-insensitive match": alias loop outside, dataset variable loop inside
CaseInsensitiveMatch(d, possible_names) ==
    LET P(i, j) == lower(possible_names[i]) = lower(d.variables[j].name)
        p == FirstPair(Len(possible_names), Len(d.variables), P)
    IN  IF p = <<0, 0>> THEN NoneV ELSE Str(d.variables[p[2]].name)

\* "Partial match in variable names"
PartialMatch(d, possible_names) ==
    LET P(i, j) == contains(lower(d.variables[j].name), lower(possible_names[i]))
        p == FirstPair(Len(possible_names), Len(d.variables), P)
    IN  IF p = <<0, 0>> THEN NoneV ELSE Str(d.variables[p[2]].name)

\* "Check long_name and standard_name attributes": dataset variable loop outside
AttributeMatch(d, possible_names) ==
    LET P(j, i) ==
            \/ contains(lower(d.variables[j].long_name), lower(possible_names[i]))
            \/ contains(lower(d.variables[j].standard_name), lower(possible_names[i]))
        p == FirstPair(Len(d.variables), Len(possible_names), P)
    IN  IF p = <<0, 0>> THEN NoneV ELSE Str(d.variables[p[1]].name)

\* mutant: the substring pass is consulted before the case-insensitive pass
find_variable_SubstringFirst(d, vt) ==
    IF vt \notin DOMAIN variable_mappings THEN NoneV
    ELSE LET possible_names == variable_mappings[vt]
             r1 == DirectMatch(d, possible_names)
             r2 == CaseInsensitiveMatch(d, possible_names)
             r3 == PartialMatch(d, possible_names)
         IN  IF r1 # NoneV THEN r1
             ELSE IF r3 # NoneV THEN r3
             ELSE IF r2 # NoneV THEN r2
             ELSE AttributeMatch(d, possible_names)

find_variable(d, vt) ==
    IF vt \notin DOMAIN variable_mappings THEN NoneV
    ELSE LET possible_names == variable_mappings[vt]
             r1 == DirectMatch(d, possible_names)
             r2 == CaseInsensitiveMatch(d, possible_names)
             r3 == PartialMatch(d, possible_names)
         IN  IF r1 # NoneV THEN r1
             ELSE IF r2 # NoneV THEN r2
             ELSE IF r3 # NoneV THEN r3
             ELSE AttributeMatch(d, possible_names)

---------------------------------------------------------------------------
(* NetCDFProcessor.detect_file_type *)

\* sum(1 for var in self.argo_required_variables if var in ds.variables)
RECURSIVE CountPresent(_, _)
CountPresent(d, names) ==
    IF names = <<>> THEN 0
    ELSE (IF HasVar(d, Head(names)) THEN 1 ELSE 0) + CountPresent(d, Tail(names))

ArgoThreshold == 2

has_ocean_vars(d) ==
    \E j \in 1..Len(d.variables) :
        \/ \E i \in 1..Len(ocean_indicators) :
              contains(lower(d.variables[j].name), ocean_indicators[i])
        \/ \E i \in 1..Len(ocean_indicators) :
              contains(lower(d.variables[j].long_name), ocean_indicators[i])

\* mutant: one required variable is enough for the profile type
detect_file_type_OneArgoVar(d) ==
    IF CountPresent(d, argo_required_variables) >= 1 THEN "argo"
    ELSE IF has_ocean_vars(d) THEN "oceanographic"
    ELSE "general"

detect_file_type(d) ==
    IF CountPresent(d, argo_required_variables) >= ArgoThreshold THEN "argo"
    ELSE IF has_ocean_vars(d) THEN "oceanographic"
    ELSE "general"

---------------------------------------------------------------------------
(* Datasets *)

\* a variable with the attributes the resolver and the classifier read
MkVar(name, long_name, standard_name) ==
    [name |-> name, long_name |-> long_name, standard_name |-> standard_name,
     units |-> <<>>, shape |-> <<>>, data |-> <<Num(0)>>]

\* sequences of at most n distinct elements of the pool (ds.variables is ordered)
RECURSIVE Arrangements(_, _)
Arrangements(pool, n) ==
    IF n = 0 THEN {<<>>}
    ELSE LET shorter == Arrangements(pool, n - 1)
         IN  shorter \cup
             {Append(a, x) : <<a, x>> \in
                 {p \in shorter \X pool :
                     /\ Len(p[1]) = n - 1
                     /\ \A j \in 1..Len(p[1]) : p[1][j].name # p[2].name}}

Range(f) == {f[i] : i \in DOMAIN f}

MkDataset(variables, attrs, sizes) ==
    [variables |-> variables, attrs |-> attrs, sizes |-> sizes]

NoAttrs == << >>

ResolverVarPool ==
    <<
       MkVar(<<"T","E","M","P">>,
             <<>>, <<>>),
       MkVar(<<"T","E","M","P","_","A","D","J","U","S","T","E","D">>,
             <<>>, <<>>),
       MkVar(<<"T","e","m","p">>,
             <<>>, <<>>),
       MkVar(<<"o","c","e","a","n","_","t","e","m","p">>,
             <<>>, <<>>),
       MkVar(<<"v","1">>,
             <<"F","l","o","a","t"," ","T","e","m","p","e","r","a","t","u","r","e">>, <<>>),
       MkVar(<<"v","2">>,
             <<>>, <<"s","e","a","_","w","a","t","e","r","_","p","r","e","s","s","u","r","e">>),
       MkVar(<<"P","R","E","S">>,
             <<>>, <<>>),
       MkVar(<<"P","S","A","L">>,
             <<>>, <<>>),
       MkVar(<<"q">>,
             <<>>, <<>>)
    >>

MaxResolverVars == 3

ResolverDatasets ==
    {MkDataset(a, NoAttrs, <<>>) : a \in Arrangements(Range(ResolverVarPool), MaxResolverVars)}

\* every var_type the extractors pass to find_variable
VarTypes ==
    {"pressure", "depth", "temperature", "salinity", "oxygen", "nitrate", "ph",
     "chlorophyll", "latitude", "longitude", "time"}

---------------------------------------------------------------------------
(* Resolver and classifier applied to bounded datasets *)

InitResolver ==
    /\ ds \in ResolverDatasets
    /\ var_type = "none"
    /\ found = Pending
    /\ file_type = "pending"
    /\ metadata = Pending
    /\ hook = <<>>
    /\ measurements = Pending
    /\ FilesIdle
    /\ DbIdle
    /\ TransformerIdle
    /\ mode_history = <<>>

FindVariable ==
    /\ found = Pending
    /\ \E vt \in VarTypes :
          /\ var_type' = vt
          /\ found' = find_variable(ds, vt)
    /\ UNCHANGED <<ds, file_type, metadata, hook, measurements>>
    /\ UNCHANGED <<fileVars, dbVars, transformerVars, mode_history>>

DetectFileType ==
    /\ file_type = "pending"
    /\ file_type' = detect_file_type(ds)
    /\ UNCHANGED <<ds, var_type, found, metadata, hook, measurements>>
    /\ UNCHANGED <<fileVars, dbVars, transformerVars, mode_history>>

NextResolver == FindVariable \/ DetectFileType

SpecResolver == InitResolver /\ [][NextResolver]_vars

---------------------------------------------------------------------------
(* Python conversions used by the extractors *)

Digits == <<"0","1","2","3","4","5","6","7","8","9">>

IsDigit(c) == InList(c, Digits)

DigitValue(c) == (CHOOSE i \in 1..Len(Digits) : Digits[i] = c) - 1

\* str(n) for a non-negative integer n
RECURSIVE StrOfNat(_)
StrOfNat(n) ==
    IF n < 10 THEN <<Digits[n + 1]>>
    ELSE Append(StrOfNat(n \div 10), Digits[(n % 10) + 1])

\* str(value)
str(value) ==
    CASE value.k = "str" -> value
      [] value.k = "num" ->
            Str(IF value.v < 0 THEN <<"-">> \o StrOfNat(0 - value.v) ELSE StrOfNat(value.v))
      [] value.k = "nan" -> Str(<<"n","a","n">>)
      [] OTHER -> Str(<<"N","o","n","e">>)

RECURSIVE NatOfStr(_)
NatOfStr(s) ==
    IF s = <<>> THEN 0
    ELSE 10 * NatOfStr(SubSeq(s, 1, Len(s) - 1)) + DigitValue(s[Len(s)])

Raised == [k |-> "raised", v |-> 0]

\* float(value): a number, NaN, or Raised (ValueError / TypeError)
float(value) ==
    CASE value.k = "num" -> value
      [] value.k = "nan" -> NaN
      [] value.k = "str" ->
            IF value.v # <<>> /\ \A i \in 1..Len(value.v) : IsDigit(value.v[i])
            THEN Num(NatOfStr(value.v))
            ELSE IF lower(value.v) = <<"n","a","n">> THEN NaN
            ELSE Raised
      [] OTHER -> Raised

\* int(float(value)): a number or Raised (int(nan) raises ValueError)
int_float(value) ==
    IF float(value).k = "num" THEN float(value) ELSE Raised

\* number of elements of an array of the given shape
RECURSIVE SizeOf(_)
SizeOf(shape) == IF shape = <<>> THEN 1 ELSE Head(shape) * SizeOf(Tail(shape))

---------------------------------------------------------------------------
(* NetCDFProcessor.safe_extract_value, called with ds[var].values (an ndarray):
   ndarray has .item(), which returns the element of a size-1 array and raises
   ValueError otherwise; the ValueError is caught and the default (None)
   returned. *)

safe_extract_value(var) ==
    IF SizeOf(var.shape) = 1 THEN var.data[1] ELSE NoneV

---------------------------------------------------------------------------
(* NetCDFProcessor.convert_time_to_datetime *)

Now == [k |-> "now", base |-> <<>>, unit |-> "", amount |-> 0]

\* base date plus amount units
DateV(base, unit, amount) == [k |-> "date", base |-> base, unit |-> unit, amount |-> amount]

IsSpace(c) == c = " "

\* \d{4}-\d{2}-\d{2} at the start of s
IsDateAt(s, p) ==
    /\ p + 9 <= Len(s)
    /\ \A o \in {0, 1, 2, 3, 5, 6, 8, 9} : IsDigit(s[p + o])
    /\ s[p + 4] = "-"
    /\ s[p + 7] = "-"

\* re.search(r'since\s+(\d{4}-\d{2}-\d{2})', units): the positions <<start of
\* "since", start of the date>> of every match
SinceMatches(units) ==
    {m \in (1..Len(units)) \X (1..Len(units)) :
        /\ m[1] + 4 <= Len(units)
        /\ SubSeq(units, m[1], m[1] + 4) = <<"s","i","n","c","e">>
        /\ m[2] > m[1] + 5
        /\ \A q \in (m[1] + 5)..(m[2] - 1) : IsSpace(units[q])
        /\ IsDateAt(units, m[2])}

\* match.group(1) of the leftmost match, or NoneV
SinceDate(units) ==
    IF SinceMatches(units) = {} THEN NoneV
    ELSE LET m == CHOOSE x \in SinceMatches(units) :
                      \A y \in SinceMatches(units) : x[1] <= y[1]
         IN  Str(SubSeq(units, m[2], m[2] + 9))

EpochArgo == <<"1","9","5","0","-","0","1","-","0","1">>
EpochUnix == <<"1","9","7","0","-","0","1","-","0","1">>

\* pd.Timestamp(time_value): a number is nanoseconds since the Unix epoch
GenericTimestamp(time_value) ==
    IF time_value.k = "num" THEN DateV(EpochUnix, "nanoseconds", time_value.v) ELSE Now

convert_time_to_datetime(time_var, time_value) ==
    LET units == time_var.units
        lu == lower(units)
    IN  IF contains(lu, <<"d","a","y","s"," ","s","i","n","c","e"," ","1","9","5","0">>)
        THEN DateV(EpochArgo, "days", float(time_value).v)
        ELSE IF contains(lu, <<"s","e","c","o","n","d","s"," ","s","i","n","c","e">>)
        THEN IF SinceDate(units) # NoneV
             THEN DateV(SinceDate(units).v, "seconds", float(time_value).v)
             ELSE GenericTimestamp(time_value)
        ELSE IF contains(lu, <<"h","o","u","r","s"," ","s","i","n","c","e">>)
        \* `re` is bound only by the import in the "seconds since" branch, so
        \* re.search raises UnboundLocalError here; the handler returns now()
        THEN Now
        ELSE GenericTimestamp(time_value)

---------------------------------------------------------------------------
(* NetCDFProcessor.extract_profile_metadata *)

Unknown == Str(<<"u","n","k","n","o","w","n">>)

\* attr_name in ds.attrs
HasAttr(d, key) == key \in DOMAIN d.attrs

\* for var_name in names: if var_name in ds.variables: value = safe_extract_value(...)
\*     if value is not None: <accept(value)> ; break      (no break when accept fails)
\* the index of the name at which the loop breaks, 0 when it runs to completion
FirstUsableVar(d, names, accept(_)) ==
    LET hits == {i \in 1..Len(names) :
                    /\ HasVar(d, names[i])
                    /\ safe_extract_value(GetVar(d, names[i])) # NoneV
                    /\ accept(safe_extract_value(GetVar(d, names[i])))}
    IN  IF hits = {} THEN 0 ELSE Min(hits)

\* for attr_name in names: if attr_name in ds.attrs: <accept(value)>; break
FirstUsableAttr(d, names, accept(_)) ==
    LET hits == {i \in 1..Len(names) :
                    HasAttr(d, names[i]) /\ accept(d.attrs[names[i]])}
    IN  IF hits = {} THEN 0 ELSE Min(hits)

Always(value) == TRUE
FloatOk(value) == float(value) # Raised
IntFloatOk(value) == int_float(value) # Raised

\* platform_number: variables, then global attributes; NoneV when the key is not set
PlatformField(d) ==
    LET i == FirstUsableVar(d, platform_vars, Always)
        a == FirstUsableAttr(d, platform_attrs, Always)
    IN  IF i # 0 THEN str(safe_extract_value(GetVar(d, platform_vars[i])))
        ELSE IF a # 0 THEN str(d.attrs[platform_attrs[a]])
        ELSE NoneV

\* cycle_number: variables (a value int(float()) rejects is skipped), then 0
CycleField(d) ==
    LET i == FirstUsableVar(d, cycle_vars, IntFloatOk)
    IN  IF i # 0 THEN int_float(safe_extract_value(GetVar(d, cycle_vars[i])))
        ELSE Num(0)

\* the value safe_extract_value gives for the variable find_variable resolves
ResolvedValue(d, vt) ==
    IF find_variable(d, vt) = NoneV THEN NoneV
    ELSE safe_extract_value(GetVar(d, find_variable(d, vt).v))

\* np.isnan(float(value)) raises inside the outer try (no handler of its own)
CoordinateRaises(d, vt) ==
    ResolvedValue(d, vt) # NoneV /\ float(ResolvedValue(d, vt)) = Raised

\* mutant: the coordinate is read from the global attributes only
CoordinateField_AttributesOnly(d, vt, attr_names) ==
    LET a == FirstUsableAttr(d, attr_names, FloatOk)
    IN  IF a # 0 THEN float(d.attrs[attr_names[a]]) ELSE Num(0)

\* latitude / longitude: resolved variable (not NaN), then global attributes
\* (float() failures skipped), then 0.0
CoordinateField(d, vt, attr_names) ==
    LET value == ResolvedValue(d, vt)
        a == FirstUsableAttr(d, attr_names, FloatOk)
    IN  IF value # NoneV /\ float(value).k = "num" THEN float(value)
        ELSE IF a # 0 THEN float(d.attrs[attr_names[a]])
        ELSE Num(0)

\* measurement_date: resolved variable converted, else now()
TimeField(d) ==
    LET value == ResolvedValue(d, "time")
    IN  IF value # NoneV /\ float(value).k = "num"
        THEN convert_time_to_datetime(GetVar(d, find_variable(d, "time").v), value)
        ELSE Now

\* data_center: variables, then global attributes, then 'unknown'
DataCenterField(d) ==
    LET i == FirstUsableVar(d, dc_vars, Always)
        a == FirstUsableAttr(d, dc_attrs, Always)
    IN  IF i # 0 THEN str(safe_extract_value(GetVar(d, dc_vars[i])))
        ELSE IF a # 0 THEN str(d.attrs[dc_attrs[a]])
        ELSE Unknown

VariableNames(d) == [j \in 1..Len(d.variables) |-> d.variables[j].name]

\* the dictionary returned by the except handler
FallbackMetadata ==
    [file_type |-> "unknown", data_center |-> Unknown, cycle_number |-> Num(0),
     latitude |-> Num(0), longitude |-> Num(0), measurement_date |-> Now]

\* an exception reaches the outer handler
MetadataRaises(d) ==
    \/ CoordinateRaises(d, "latitude")
    \/ CoordinateRaises(d, "longitude")
    \/ CoordinateRaises(d, "time")

extract_profile_metadata(d) ==
    IF MetadataRaises(d) THEN FallbackMetadata
    ELSE (IF PlatformField(d) # NoneV
          THEN ("platform_number" :> PlatformField(d)) ELSE << >>)
         @@ [file_type |-> detect_file_type(d),
             float_id |-> IF PlatformField(d) # NoneV THEN PlatformField(d) ELSE Unknown,
             cycle_number |-> CycleField(d),
             latitude |-> CoordinateField(d, "latitude", lat_attrs),
             longitude |-> CoordinateField(d, "longitude", lon_attrs),
             measurement_date |-> TimeField(d),
             data_center |-> DataCenterField(d),
             dimensions |-> d.sizes,
             variables |-> VariableNames(d)]

---------------------------------------------------------------------------
(* Datasets handed to extract_profile_metadata *)

\* a variable with a units attribute and values: data[i] is the element at
\* index i of the first dimension and index 0 of every other dimension
MkVarData(name, units, shape, data) ==
    [name |-> name, long_name |-> <<>>, standard_name |-> <<>>,
     units |-> units, shape |-> shape, data |-> data]

MetaVarPool ==
    <<
       MkVarData(<<"P","L","A","T","F","O","R","M","_","N","U","M","B","E","R">>,
                 <<>>,
                 <<>>, <<Str(<<"5","9">>)>>),
       MkVarData(<<"C","Y","C","L","E","_","N","U","M","B","E","R">>,
                 <<>>,
                 <<>>, <<Num(7)>>),
       MkVarData(<<"c","y","c","l","e","_","n","u","m","b","e","r">>,
                 <<>>,
                 <<>>, <<Str(<<"c","1">>)>>),
       MkVarData(<<"L","A","T","I","T","U","D","E">>,
                 <<>>,
                 <<>>, <<Num(12)>>),
       MkVarData(<<"L","A","T","I","T","U","D","E">>,
                 <<>>,
                 <<1>>, <<NaN>>),
       MkVarData(<<"l","a","t">>,
                 <<>>,
                 <<>>, <<Str(<<"N","A">>)>>),
       MkVarData(<<"L","O","N","G","I","T","U","D","E">>,
                 <<>>,
                 <<>>, <<Num(75)>>),
       MkVarData(<<"L","O","N","G","I","T","U","D","E">>,
                 <<>>,
                 <<2>>, <<Num(75), Num(76)>>),
       MkVarData(<<"J","U","L","D">>,
                 <<"d","a","y","s"," ","s","i","n","c","e"," ","1","9","5","0","-","0","1","-","0","1"," ","0","0",":","0","0",":","0","0"," ","U","T","C">>,
                 <<>>, <<Num(100)>>),
       MkVarData(<<"t","i","m","e">>,
                 <<"s","e","c","o","n","d","s"," ","s","i","n","c","e"," ","2","0","0","0","-","0","1","-","0","1">>,
                 <<1>>, <<Num(60)>>),
       MkVarData(<<"T","I","M","E">>,
                 <<"h","o","u","r","s"," ","s","i","n","c","e"," ","2","0","0","0","-","0","1","-","0","1">>,
                 <<>>, <<Num(5)>>),
       MkVarData(<<"D","A","T","A","_","C","E","N","T","R","E">>,
                 <<>>,
                 <<>>, <<Str(<<"I","N">>)>>)
    >>

\* global attributes of a file
MetaAttrs ==
    (<<"p","l","a","t","f","o","r","m","_","n","u","m","b","e","r">> :> Str(<<"A","1">>)) @@ (<<"l","a","t","i","t","u","d","e">> :> Num(5)) @@ (<<"l","o","n","g","i","t","u","d","e">> :> Str(<<"b","a","d">>))
    @@ (<<"l","o","n">> :> Num(80)) @@ (<<"i","n","s","t","i","t","u","t","i","o","n">> :> Str(<<"I","N","C","O","I","S">>))

MetaSizes == << [name |-> <<"N","_","L","E","V","E","L","S">>, size |-> 2] >>

MaxMetaVars == 3

MetaDatasets ==
    {MkDataset(a, at, MetaSizes) :
        a \in Arrangements(Range(MetaVarPool), MaxMetaVars), at \in {NoAttrs, MetaAttrs}}

InitMetadata ==
    /\ ds \in MetaDatasets
    /\ var_type = "none"
    /\ found = Pending
    /\ file_type = "pending"
    /\ metadata = Pending
    /\ hook = <<>>
    /\ measurements = Pending
    /\ FilesIdle
    /\ DbIdle
    /\ TransformerIdle
    /\ mode_history = <<>>

ExtractProfileMetadata ==
    /\ metadata = Pending
    /\ metadata' = extract_profile_metadata(ds)
    /\ UNCHANGED <<ds, var_type, found, file_type, hook, measurements>>
    /\ UNCHANGED <<fileVars, dbVars, transformerVars, mode_history>>

NextMetadata == ExtractProfileMetadata

SpecMetadata == InitMetadata /\ [][NextMetadata]_vars

---------------------------------------------------------------------------
(* NetCDFProcessor.extract_measurements *)

\* dim_name in ds.sizes
HasDim(d, name) == \E j \in 1..Len(d.sizes) : d.sizes[j].name = name

DimSize(d, name) ==
    d.sizes[CHOOSE j \in 1..Len(d.sizes) : d.sizes[j].name = name].size

\* mutant: the largest dimension is taken whatever the names are
n_levels_of_LargestOnly(d) ==
    LET largest == {j \in 1..Len(d.sizes) :
                       \A h \in 1..Len(d.sizes) : d.sizes[h].size <= d.sizes[j].size}
    IN  IF d.sizes # <<>> THEN d.sizes[Min(largest)].size ELSE 0

\* n_levels: the first conventional vertical dimension present, else the largest
\* dimension (sorted() is stable, so the first of the largest), else 0
n_levels_of(d) ==
    LET named == {i \in 1..Len(main_dims) : HasDim(d, main_dims[i])}
        largest == {j \in 1..Len(d.sizes) :
                       \A h \in 1..Len(d.sizes) : d.sizes[h].size <= d.sizes[j].size}
    IN  IF named # {} THEN DimSize(d, main_dims[Min(named)])
        ELSE IF d.sizes # <<>> THEN d.sizes[Min(largest)].size
        ELSE 0

schema_vars ==
    <<"pressure", "depth", "temperature", "salinity", "oxygen", "nitrate", "ph",
      "chlorophyll">>

\* the result of float(x) inside the bare try/except: the value, or None
FloatOrNone(x) == IF float(x) = Raised THEN NoneV ELSE float(x)

\* the value extracted from variable var at level i (1-based here, 0-based in
\* the code); var.data[i] is var_data[i] for a 1-D and var_data[i, 0, ..., 0]
\* for a higher-rank array
LevelValue(var, i) ==
    LET ndim == Len(var.shape)
    IN  IF ndim = 0 THEN FloatOrNone(var.data[1])
        ELSE IF ndim = 1
        THEN IF i <= var.shape[1] THEN FloatOrNone(var.data[i]) ELSE NoneV
        ELSE IF i <= var.shape[1]
             \* var_data[i, 0]: IndexError when the second dimension is empty;
             \* for rank >= 3 it is an array, and float() of an array that is
             \* not of size 1 raises TypeError
             THEN IF var.shape[2] >= 1 /\ SizeOf(SubSeq(var.shape, 3, ndim)) = 1
                  THEN FloatOrNone(var.data[i])
                  ELSE NoneV
             ELSE NoneV

\* measurements_cols = {var: self.find_variable(ds, var) for var in schema_vars}
measurements_cols(d) == [f \in Range(schema_vars) |-> find_variable(d, f)]

\* measurements_cols.get(var), then the guarded extraction
FieldValue(d, cols, field, i) ==
    IF cols[field] = NoneV THEN NoneV
    ELSE LevelValue(GetVar(d, cols[field].v), i)

\* mutant: depth is taken from pressure whenever pressure was extracted
LevelRecord_DepthFromPressure(d, cols, i) ==
    LET value == [f \in Range(schema_vars) |-> FieldValue(d, cols, f, i)]
    IN  [pressure |-> value["pressure"],
         depth |-> IF value["pressure"] # NoneV
                   THEN value["pressure"]
                   ELSE value["depth"],
         temperature |-> value["temperature"],
         salinity |-> value["salinity"],
         oxygen |-> value["oxygen"],
         nitrate |-> value["nitrate"],
         ph |-> value["ph"],
         chlorophyll |-> value["chlorophyll"],
         quality_flag |-> 1]

\* the record built for level i, depth back-filled from pressure
LevelRecord(d, cols, i) ==
    LET value == [f \in Range(schema_vars) |-> FieldValue(d, cols, f, i)]
    IN  [pressure |-> value["pressure"],
         depth |-> IF value["depth"] = NoneV /\ value["pressure"] # NoneV
                   THEN value["pressure"]
                   ELSE value["depth"],
         temperature |-> value["temperature"],
         salinity |-> value["salinity"],
         oxygen |-> value["oxygen"],
         nitrate |-> value["nitrate"],
         ph |-> value["ph"],
         chlorophyll |-> value["chlorophyll"],
         quality_flag |-> 1]

\* mutant: a record for which the hook raises is dropped like a denied one
RECURSIVE AppendValidated_DropsOnRaise(_, _, _, _, _)
AppendValidated_DropsOnRaise(d, cols, h, i, n) ==
    IF i > n THEN <<>>
    ELSE (IF h[i] \in {"false", "raise"} THEN <<>> ELSE <<LevelRecord(d, cols, i)>>)
         \o AppendValidated_DropsOnRaise(d, cols, h, i + 1, n)

\* validate_measurement_data for the record of level i: "true", "false" or
\* "raise"; a record is appended unless the hook returns a false value
RECURSIVE AppendValidated(_, _, _, _, _)
AppendValidated(d, cols, h, i, n) ==
    IF i > n THEN <<>>
    ELSE (IF h[i] = "false" THEN <<>> ELSE <<LevelRecord(d, cols, i)>>)
         \o AppendValidated(d, cols, h, i + 1, n)

\* mutant: no handler around the per-field conversion, so a conversion error
\* reaches the outer handler, which returns []
extract_measurements_NoFieldHandler(d, h) ==
    IF \E i \in 1..n_levels_of(d) : \E f \in Range(schema_vars) :
          /\ find_variable(d, f) # NoneV
          /\ LET var == GetVar(d, find_variable(d, f).v)
             IN  \/ Len(var.shape) = 0 /\ float(var.data[1]) = Raised
                 \/ Len(var.shape) >= 1 /\ i <= var.shape[1] /\ float(var.data[i]) = Raised
    THEN <<>>
    ELSE AppendValidated(d, measurements_cols(d), h, 1, n_levels_of(d))

extract_measurements(d, h) ==
    IF n_levels_of(d) = 0 THEN <<>>
    ELSE AppendValidated(d, measurements_cols(d), h, 1, n_levels_of(d))

---------------------------------------------------------------------------
(* Datasets handed to extract_measurements *)

MeasVarPool ==
    <<
       MkVarData(<<"T","E","M","P">>, <<>>,
                 <<2>>, <<Num(10), Num(12)>>),
       MkVarData(<<"T","E","M","P">>, <<>>,
                 <<2>>, <<Num(10), Str(<<"b","a","d">>)>>),
       MkVarData(<<"P","R","E","S">>, <<>>,
                 <<2>>, <<Num(5), Num(100)>>),
       MkVarData(<<"P","R","E","S">>, <<>>,
                 <<1>>, <<Num(5)>>),
       MkVarData(<<"P","S","A","L">>, <<>>,
                 <<>>, <<Num(35)>>),
       MkVarData(<<"D","E","P","T","H">>, <<>>,
                 <<2>>, <<NaN, Num(90)>>),
       MkVarData(<<"D","O","X","Y">>, <<>>,
                 <<2, 2>>, <<Num(200), Num(210)>>),
       MkVarData(<<"D","O","X","Y">>, <<>>,
                 <<2, 2, 2>>, <<Num(200), Num(210)>>),
       MkVarData(<<"N","I","T","R","A","T","E">>, <<>>,
                 <<2>>, <<Num(3), Num(4)>>)
    >>

MeasSizes ==
    { << [name |-> <<"N","_","L","E","V","E","L","S">>, size |-> 2] >>,
      << [name |-> <<"N","_","P","R","O","F">>, size |-> 1], [name |-> <<"N","_","L","E","V","E","L","S">>, size |-> 2] >>,
      << [name |-> <<"x">>, size |-> 1], [name |-> <<"y">>, size |-> 2] >>,
      << [name |-> <<"z">>, size |-> 2], [name |-> <<"N","_","L","E","V","E","L","S">>, size |-> 1] >>,
      << [name |-> <<"N","_","L","E","V","E","L","S">>, size |-> 0] >>,
      << >> }

\* the largest vertical dimension among the datasets
MaxLevels ==
    LET sizes == {sz[j].size : <<sz, j>> \in {p \in MeasSizes \X (1..2) : p[2] <= Len(p[1])}}
    IN  CHOOSE m \in sizes : \A n \in sizes : n <= m

MaxMeasVars == 2

MeasDatasets ==
    {MkDataset(a, NoAttrs, sz) :
        a \in Arrangements(Range(MeasVarPool), MaxMeasVars), sz \in MeasSizes}

\* what the schema-validation hook does for the record of each level
HookBehaviours == [1..MaxLevels -> {"true", "false", "raise"}]

InitMeasurements ==
    /\ ds \in MeasDatasets
    /\ hook \in HookBehaviours
    /\ var_type = "none"
    /\ found = Pending
    /\ file_type = "pending"
    /\ metadata = Pending
    /\ measurements = Pending
    /\ FilesIdle
    /\ DbIdle
    /\ TransformerIdle
    /\ mode_history = <<>>

ExtractMeasurements ==
    /\ measurements = Pending
    /\ measurements' = List(extract_measurements(ds, hook))
    /\ UNCHANGED <<ds, hook, var_type, found, file_type, metadata>>
    /\ UNCHANGED <<fileVars, dbVars, transformerVars, mode_history>>

NextMeasurements == ExtractMeasurements

SpecMeasurements == InitMeasurements /\ [][NextMeasurements]_vars

---------------------------------------------------------------------------
(* Files on disk: what os.path.exists, xr.open_dataset and the MD5 of the
   bytes give for each path *)

LevelsDim == << [name |-> <<"N","_","L","E","V","E","L","S">>, size |-> 2] >>

ArgoDataset ==
    MkDataset(<< MkVarData(<<"T","E","M","P">>, <<>>, <<2>>, <<Num(10), Num(12)>>),
                 MkVarData(<<"P","R","E","S">>, <<>>, <<2>>, <<Num(5), Num(100)>>),
                 MkVarData(<<"P","S","A","L">>, <<>>, <<2>>, <<Num(35), Num(36)>>),
                 MkVarData(<<"L","A","T","I","T","U","D","E">>, <<>>, <<>>, <<Num(12)>>),
                 MkVarData(<<"L","O","N","G","I","T","U","D","E">>, <<>>, <<>>, <<Num(75)>>) >>, NoAttrs, LevelsDim)

OneArgoVarDataset ==
    MkDataset(<< MkVarData(<<"T","E","M","P">>, <<>>, <<2>>, <<Num(10), Num(12)>>) >>, NoAttrs, LevelsDim)

GeneralDataset ==
    MkDataset(<< MkVarData(<<"q">>, <<>>, <<2>>, <<Num(1), Num(2)>>) >>, MetaAttrs, LevelsDim)

BadLatitudeDataset ==
    MkDataset(<< MkVarData(<<"P","R","E","S">>, <<>>, <<2>>, <<Num(5), Num(100)>>),
                 MkVarData(<<"l","a","t">>, <<>>, <<>>, <<Str(<<"N","A">>)>>) >>, MetaAttrs, LevelsDim)

EmptyDataset == MkDataset(<< >>, NoAttrs, << >>)

\* one level, coordinates under their short names, declared before the profile variables
SingleLevelDataset ==
    MkDataset(<< MkVarData(<<"l","a","t">>, <<>>, <<>>, <<Num(-33)>>),
                 MkVarData(<<"l","o","n">>, <<>>, <<>>, <<Num(151)>>),
                 MkVarData(<<"P","S","A","L">>, <<>>, <<1>>, <<Num(34)>>),
                 MkVarData(<<"P","R","E","S">>, <<>>, <<1>>, <<Num(3)>>),
                 MkVarData(<<"T","E","M","P">>, <<>>, <<1>>, <<Num(25)>>) >>, NoAttrs,
              << [name |-> <<"N","_","L","E","V","E","L","S">>, size |-> 1] >>)

MkFile(exists, openable, dataset, hash, ext) ==
    [exists |-> exists, openable |-> openable, dataset |-> dataset, hash |-> hash,
     ext |-> ext]

\* self.supported_formats
supported_formats == << <<".","n","c">>, <<".","n","e","t","c","d","f">>, <<".","n","c","4">> >>

\* ext.lower() not in self.supported_formats: a warning is logged, nothing else
UnusualExtension(f) == ~InList(lower(f.ext), supported_formats)

FileSystem ==
    [ argo |-> MkFile(TRUE, TRUE, ArgoDataset, "md5_argo", <<".","n","c">>),
      onevar |-> MkFile(TRUE, TRUE, OneArgoVarDataset, "md5_onevar", <<".","N","C">>),
      single |-> MkFile(TRUE, TRUE, SingleLevelDataset, "md5_single", <<".","n","c">>),
      general |-> MkFile(TRUE, TRUE, GeneralDataset, "md5_general", <<".","t","x","t">>),
      badlat |-> MkFile(TRUE, TRUE, BadLatitudeDataset, "md5_badlat", <<".","n","c","4">>),
      empty |-> MkFile(TRUE, TRUE, EmptyDataset, "md5_empty", <<".","n","c">>),
      corrupt |-> MkFile(TRUE, FALSE, EmptyDataset, "md5_corrupt", <<".","d","a","t">>),
      missing |-> MkFile(FALSE, FALSE, EmptyDataset, "", <<".","n","c">>) ]

Paths == DOMAIN FileSystem

\* the mode strings a processor is constructed with (__init__ stores any string)
Modes == {"argo", "flexible", "auto", "ARGO"}

MaxFiles == 2

RECURSIVE PathLists(_)
PathLists(n) ==
    IF n = 0 THEN {<<>>}
    ELSE PathLists(n - 1) \cup
         {Append(l, p) : <<l, p>> \in {x \in PathLists(n - 1) \X Paths : Len(x[1]) = n - 1}}

\* the fallback validate_measurement_data returns True for every record
FallbackHook == [i \in 1..MaxLevels |-> "true"]

---------------------------------------------------------------------------
(* NetCDFProcessor.process_multiple_files / process_file / validate_file *)

CurrentPath == file_paths[idx]
CurrentFile == FileSystem[CurrentPath]

\* mutant: in argo mode every file not classified as a profile is rejected
validate_checks_RequiresArgoType(d, m) ==
    IF Len(d.variables) = 0 THEN FALSE
    ELSE IF m = "argo" /\ detect_file_type(d) # "argo" THEN FALSE
    ELSE TRUE

\* the body of the `with` block of validate_file: True or False
validate_checks(d, m) ==
    IF Len(d.variables) = 0 THEN FALSE
    ELSE IF m = "argo" /\ detect_file_type(d) # "argo"
            /\ ~\E i \in 1..Len(argo_required_variables) :
                   HasVar(d, argo_required_variables[i])
    THEN FALSE
    ELSE TRUE

\* xr.open_dataset(file_path) succeeded: a new handle is open
OpenHandle ==
    /\ handles' = handles \cup {[id |-> opened + 1, path |-> CurrentPath]}
    /\ opened' = opened + 1

\* leaving a `with xr.open_dataset(...)` block closes its handle
CloseHandle == handles' = {h \in handles : h.id # opened} /\ UNCHANGED opened

Outcome(path, outcome, pair) == [path |-> path, outcome |-> outcome, pair |-> pair]

NoPair == <<>>

InitFiles ==
    /\ mode \in Modes
    /\ file_paths \in PathLists(MaxFiles)
    /\ idx = 1
    /\ results = <<>>
    /\ pc = "pmf_loop"
    /\ handles = {}
    /\ opened = 0
    /\ profile_metadata = Pending
    /\ calls = <<>>
    /\ ds = EmptyDataset
    /\ hook = FallbackHook
    /\ var_type = "none"
    /\ found = Pending
    /\ file_type = "pending"
    /\ metadata = Pending
    /\ measurements = Pending
    /\ DbIdle
    /\ TransformerIdle
    /\ mode_history = <<>>

extractVars == <<ds, hook, var_type, found, file_type, metadata, measurements>>

\* for file_path in file_paths: ... self.process_file(file_path), which calls validate_file
PMF_CallProcessFile ==
    /\ pc = "pmf_loop"
    /\ idx <= Len(file_paths)
    /\ pc' = "validate_file"
    /\ UNCHANGED <<mode, file_paths, idx, results, handles, opened, profile_metadata, calls>>
    /\ UNCHANGED <<extractVars, dbVars, transformerVars, mode_history>>

\* validate_file: os.path.exists is false -> return False -> process_file raises ValueError
VF_Missing ==
    /\ pc = "validate_file"
    /\ ~CurrentFile.exists
    /\ pc' = "pf_raise"
    /\ UNCHANGED <<mode, file_paths, idx, results, handles, opened, profile_metadata, calls>>
    /\ UNCHANGED <<extractVars, dbVars, transformerVars, mode_history>>

\* mutant: an extension outside supported_formats fails validation
VF_OpenFails_OnUnusualExtension ==
    /\ pc = "validate_file"
    /\ CurrentFile.exists
    /\ ~CurrentFile.openable \/ UnusualExtension(CurrentFile)
    /\ pc' = "pf_raise"
    /\ UNCHANGED <<mode, file_paths, idx, results, handles, opened, profile_metadata, calls>>
    /\ UNCHANGED <<extractVars, dbVars, transformerVars, mode_history>>

\* validate_file: xr.open_dataset raises -> handler returns False -> ValueError
VF_OpenFails ==
    /\ pc = "validate_file"
    /\ CurrentFile.exists
    /\ ~CurrentFile.openable
    /\ pc' = "pf_raise"
    /\ UNCHANGED <<mode, file_paths, idx, results, handles, opened, profile_metadata, calls>>
    /\ UNCHANGED <<extractVars, dbVars, transformerVars, mode_history>>

\* validate_file: with xr.open_dataset(file_path) as ds
VF_Open ==
    /\ pc = "validate_file"
    /\ CurrentFile.exists
    /\ CurrentFile.openable
    /\ OpenHandle
    /\ pc' = "validate_body"
    /\ UNCHANGED <<mode, file_paths, idx, results, profile_metadata, calls>>
    /\ UNCHANGED <<extractVars, dbVars, transformerVars, mode_history>>

\* mutant: a return False from inside the block leaves the dataset open
VF_Reject_LeavesOpen ==
    /\ pc = "validate_body"
    /\ ~validate_checks(CurrentFile.dataset, mode)
    /\ pc' = "pf_raise"
    /\ UNCHANGED <<mode, file_paths, idx, results, handles, opened, profile_metadata, calls>>
    /\ UNCHANGED <<extractVars, dbVars, transformerVars, mode_history>>

\* validate_file returns False from inside the block; the block's exit closes the handle
VF_Reject ==
    /\ pc = "validate_body"
    /\ ~validate_checks(CurrentFile.dataset, mode)
    /\ CloseHandle
    /\ pc' = "pf_raise"
    /\ UNCHANGED <<mode, file_paths, idx, results, profile_metadata, calls>>
    /\ UNCHANGED <<extractVars, dbVars, transformerVars, mode_history>>

\* validate_file leaves the block and returns True; process_file computes the hash
VF_Accept ==
    /\ pc = "validate_body"
    /\ validate_checks(CurrentFile.dataset, mode)
    /\ CloseHandle
    /\ pc' = "pf_open"
    /\ UNCHANGED <<mode, file_paths, idx, results, profile_metadata, calls>>
    /\ UNCHANGED <<extractVars, dbVars, transformerVars, mode_history>>

\* process_file: with xr.open_dataset(file_path) as ds
PF_Open ==
    /\ pc = "pf_open"
    /\ OpenHandle
    /\ ds' = CurrentFile.dataset
    /\ pc' = "pf_metadata"
    /\ UNCHANGED <<mode, file_paths, idx, results, profile_metadata, calls>>
    /\ UNCHANGED <<hook, var_type, found, file_type, metadata, measurements, dbVars, transformerVars, mode_history>>

\* profile_metadata = self.extract_profile_metadata(ds); file_hash and file_path added
PF_ExtractMetadata ==
    /\ pc = "pf_metadata"
    /\ profile_metadata' =
          extract_profile_metadata(ds)
          @@ [file_hash |-> CurrentFile.hash, file_path |-> CurrentPath]
    /\ pc' = "pf_measurements"
    /\ UNCHANGED <<mode, file_paths, idx, results, handles, opened, calls>>
    /\ UNCHANGED <<extractVars, dbVars, transformerVars, mode_history>>

\* measurements = self.extract_measurements(ds); return, leaving the block
PF_ExtractMeasurementsAndReturn ==
    /\ pc = "pf_measurements"
    /\ calls' = Append(calls, Outcome(CurrentPath, "returned",
                                     <<profile_metadata, extract_measurements(ds, hook)>>))
    /\ CloseHandle
    /\ pc' = "pf_return"
    /\ UNCHANGED <<mode, file_paths, idx, results, profile_metadata>>
    /\ UNCHANGED <<extractVars, dbVars, transformerVars, mode_history>>

\* process_file's handler logs and re-raises
PF_Raise ==
    /\ pc = "pf_raise"
    /\ calls' = Append(calls, Outcome(CurrentPath, "raised", NoPair))
    /\ pc' = "pmf_except"
    /\ UNCHANGED <<mode, file_paths, idx, results, handles, opened, profile_metadata>>
    /\ UNCHANGED <<extractVars, dbVars, transformerVars, mode_history>>

\* results.append((profile_data, measurements))
PMF_Append ==
    /\ pc = "pf_return"
    /\ results' = Append(results, calls[Len(calls)].pair)
    /\ idx' = idx + 1
    /\ pc' = "pmf_loop"
    /\ UNCHANGED <<mode, file_paths, handles, opened, profile_metadata, calls>>
    /\ UNCHANGED <<extractVars, dbVars, transformerVars, mode_history>>

\* mutant: no handler around process_file, the exception leaves the batch
PMF_Catch_Propagates ==
    /\ pc = "pmf_except"
    /\ pc' = "pmf_raised"
    /\ UNCHANGED <<mode, file_paths, idx, results, handles, opened, profile_metadata, calls>>
    /\ UNCHANGED <<extractVars, dbVars, transformerVars, mode_history>>

\* except Exception: log; continue
PMF_Catch ==
    /\ pc = "pmf_except"
    /\ idx' = idx + 1
    /\ pc' = "pmf_loop"
    /\ UNCHANGED <<mode, file_paths, results, handles, opened, profile_metadata, calls>>
    /\ UNCHANGED <<extractVars, dbVars, transformerVars, mode_history>>

\* return results
PMF_Return ==
    /\ pc = "pmf_loop"
    /\ idx > Len(file_paths)
    /\ pc' = "done"
    /\ UNCHANGED <<mode, file_paths, idx, results, handles, opened, profile_metadata, calls>>
    /\ UNCHANGED <<extractVars, dbVars, transformerVars, mode_history>>

NextFiles ==
    \/ PMF_CallProcessFile
    \/ VF_Missing
    \/ VF_OpenFails
    \/ VF_Open
    \/ VF_Reject
    \/ VF_Accept
    \/ PF_Open
    \/ PF_ExtractMetadata
    \/ PF_ExtractMeasurementsAndReturn
    \/ PF_Raise
    \/ PMF_Append
    \/ PMF_Catch
    \/ PMF_Return

SpecFiles == InitFiles /\ [][NextFiles]_vars

---------------------------------------------------------------------------
(* DatabaseManager: table argo_profiles (id SERIAL PRIMARY KEY, ...,
   data_center VARCHAR(10), file_hash VARCHAR(64) UNIQUE) *)

\* the text of the INSERT statement, which SQLAlchemy appends to the message of
\* every error raised while executing it ("[SQL: ...]")
InsertStatement ==
    <<"I","N","S","E","R","T"," ","I","N","T","O"," ","a","r",
      "g","o","_","p","r","o","f","i","l","e","s"," ","(","f",
      "l","o","a","t","_","i","d",","," ","c","y","c","l","e",
      "_","n","u","m","b","e","r",","," ","l","a","t","i","t",
      "u","d","e",","," ","l","o","n","g","i","t","u","d","e",
      ","," ","m","e","a","s","u","r","e","m","e","n","t","_",
      "d","a","t","e",","," ","p","l","a","t","f","o","r","m",
      "_","n","u","m","b","e","r",","," ","d","a","t","a","_",
      "c","e","n","t","e","r",","," ","f","i","l","e","_","h",
      "a","s","h",")"," ","V","A","L","U","E","S"," ","(",":",
      "f","l","o","a","t","_","i","d",","," ",":","c","y","c",
      "l","e","_","n","u","m","b","e","r",","," ",":","l","a",
      "t","i","t","u","d","e",","," ",":","l","o","n","g","i",
      "t","u","d","e",","," ",":","m","e","a","s","u","r","e",
      "m","e","n","t","_","d","a","t","e",","," ",":","p","l",
      "a","t","f","o","r","m","_","n","u","m","b","e","r",",",
      " ",":","d","a","t","a","_","c","e","n","t","e","r",",",
      " ",":","f","i","l","e","_","h","a","s","h",")"," ","R",
      "E","T","U","R","N","I","N","G"," ","i","d">>

StatementSuffix == <<" ","[","S","Q","L",":"," ">> \o InsertStatement \o <<"]">>

\* str(e) for the SQLAlchemyError of each failure
ErrorText(kind) ==
    CASE kind = "missing_bind" ->
            <<"(","s","q","l","a","l","c","h","e","m","y",".","e","x",
              "c",".","I","n","v","a","l","i","d","R","e","q","u","e",
              "s","t","E","r","r","o","r",")"," ","A"," ","v","a","l",
              "u","e"," ","i","s"," ","r","e","q","u","i","r","e","d",
              " ","f","o","r"," ","b","i","n","d"," ","p","a","r","a",
              "m","e","t","e","r"," ","'","p","l","a","t","f","o","r",
              "m","_","n","u","m","b","e","r","'">> \o StatementSuffix
      [] kind = "too_long" ->
            <<"(","p","s","y","c","o","p","g","2",".","e","r","r","o",
              "r","s",".","S","t","r","i","n","g","D","a","t","a","R",
              "i","g","h","t","T","r","u","n","c","a","t","i","o","n",
              ")"," ","v","a","l","u","e"," ","t","o","o"," ","l","o",
              "n","g"," ","f","o","r"," ","t","y","p","e"," ","c","h",
              "a","r","a","c","t","e","r"," ","v","a","r","y","i","n",
              "g","(","1","0",")">> \o StatementSuffix
      [] kind = "unique" ->
            <<"(","p","s","y","c","o","p","g","2",".","e","r","r","o",
              "r","s",".","U","n","i","q","u","e","V","i","o","l","a",
              "t","i","o","n",")"," ","d","u","p","l","i","c","a","t",
              "e"," ","k","e","y"," ","v","a","l","u","e"," ","v","i",
              "o","l","a","t","e","s"," ","u","n","i","q","u","e"," ",
              "c","o","n","s","t","r","a","i","n","t"," ","a","r","g",
              "o","_","p","r","o","f","i","l","e","s","_","f","i","l",
              "e","_","h","a","s","h","_","k","e","y">> \o StatementSuffix
      [] OTHER ->
            \* the connection could not be made: no statement was executed
            <<"(","p","s","y","c","o","p","g","2",".","O","p","e","r",
              "a","t","i","o","n","a","l","E","r","r","o","r",")"," ",
              "c","o","n","n","e","c","t","i","o","n"," ","r","e","f",
              "u","s","e","d">>

\* mutant: the handler looks for another column name
IsReportedAsDuplicate_OtherColumn(message) ==
    contains(message, <<"c","o","n","t","e","n","t","_","h","a","s","h">>)

\* if "file_hash" in str(e)
IsReportedAsDuplicate(message) ==
    contains(message, <<"f","i","l","e","_","h","a","s","h">>)

\* the failure of the INSERT for profile_data pd against the stored rows, "ok"
\* when the row is inserted: a bind parameter without a value is refused before
\* the statement is sent, a value too long for its column before the row
\* reaches the unique index
InsertFailure(pd, rows) ==
    IF ~pd.reachable THEN "connect"
    ELSE IF ~pd.has_platform_number THEN "missing_bind"
    ELSE IF ~pd.data_center_fits THEN "too_long"
    ELSE IF \E r \in rows : r.file_hash = pd.file_hash THEN "unique"
    ELSE "ok"

NoId == 0

\* DatabaseManager.get_profile_id_by_hash: the id of the row, None without one
\* or when the query fails
get_profile_id_by_hash(rows, file_hash, reachable) ==
    IF reachable /\ \E r \in rows : r.file_hash = file_hash
    THEN (CHOOSE r \in rows : r.file_hash = file_hash).id
    ELSE NoId

Hashes == {"md5_a", "md5_b"}

\* profile_data as far as the INSERT depends on it, and whether the database
\* accepts connections during the call
ProfileData ==
    [file_hash : Hashes, has_platform_number : BOOLEAN, data_center_fits : BOOLEAN,
     reachable : BOOLEAN]

MaxInserts == 3

\* a finished call: its hash, whether the database was reachable, how the
\* INSERT failed ("ok" when it did not), what the caller got, and whether a
\* row was created
Call(pd, failure, outcome, id, created) ==
    [file_hash |-> pd.file_hash, reachable |-> pd.reachable, failure |-> failure,
     outcome |-> outcome, id |-> id, created |-> created]

\* DatabaseManager.insert_profile
InsertProfile ==
    /\ Len(inserts) < MaxInserts
    /\ \E pd \in ProfileData :
          LET failure == InsertFailure(pd, profiles)
          IN  IF failure = "ok"
              THEN /\ profiles' = profiles \cup {[id |-> next_id, file_hash |-> pd.file_hash]}
                   /\ next_id' = next_id + 1
                   /\ inserts' = Append(inserts, Call(pd, failure, "returned", next_id, TRUE))
              ELSE /\ profiles' = profiles
                   \* a serial value drawn for a row that is then refused is not reused
                   /\ next_id' \in (IF failure \in {"unique", "too_long"}
                                    THEN {next_id, next_id + 1} ELSE {next_id})
                   /\ inserts' =
                         Append(inserts,
                                IF IsReportedAsDuplicate(ErrorText(failure))
                                THEN Call(pd, failure, "returned",
                                          get_profile_id_by_hash(profiles, pd.file_hash,
                                                                 pd.reachable),
                                          FALSE)
                                ELSE Call(pd, failure, "raised", NoId, FALSE))
    /\ UNCHANGED <<ds, hook, var_type, found, file_type, metadata, measurements>>
    /\ UNCHANGED <<fileVars, transformerVars, mode_history>>

InitDatabase ==
    /\ DbIdle
    /\ TransformerIdle
    /\ mode_history = <<>>
    /\ FilesIdle
    /\ ds = EmptyDataset
    /\ hook = <<>>
    /\ var_type = "none"
    /\ found = Pending
    /\ file_type = "pending"
    /\ metadata = Pending
    /\ measurements = Pending

NextDatabase == InsertProfile

SpecDatabase == InitDatabase /\ [][NextDatabase]_vars

---------------------------------------------------------------------------
(* data_processing/data_transformer.py: DataFrames                         *)
(*                                                                         *)
(* A float is the fraction n/d (d > 0), so that the 0.2 threshold, the     *)
(* means and the quartiles are computed exactly; np.nan is the value nan.  *)
(* A DataFrame is its set of column names and its rows in order; a row     *)
(* keeps the index label it had in the frame first given to the            *)
(* transformer.                                                            *)

Float(n, d) == [k |-> "float", n |-> n, d |-> d]

nan == [k |-> "nan", n |-> 0, d |-> 1]

\* a value with one decimal digit, given in tenths
Tenths(t) == Float(t, 10)

isna(x) == x.k = "nan"

\* x < y on floats; every comparison with nan is False
Less(x, y) == ~isna(x) /\ ~isna(y) /\ x.n * y.d < y.n * x.d

MkRow(index, cells) == [index |-> index, cells |-> cells]

MkFrame(columns, rows) == [columns |-> columns, rows |-> rows]

\* the rows of a sequence that satisfy a mask, in order
RECURSIVE Keep(_, _)
Keep(rows, mask) ==
    IF rows = <<>> THEN <<>>
    ELSE Keep(SubSeq(rows, 1, Len(rows) - 1), mask)
         \o (IF mask[Len(rows)] THEN <<rows[Len(rows)]>> ELSE <<>>)

---------------------------------------------------------------------------
(* DataTransformer.clean_measurements *)

\* self.parameter_ranges
parameter_ranges ==
    [temperature |-> <<-5, 50>>,
     salinity |-> <<0, 50>>,
     pressure |-> <<0, 10000>>,
     depth |-> <<0, 10000>>,
     oxygen |-> <<0, 500>>,
     nitrate |-> <<0, 100>>,
     ph |-> <<6, 9>>,
     chlorophyll |-> <<0, 100>>]

measurement_cols ==
    {"temperature", "salinity", "pressure", "oxygen", "nitrate", "ph", "chlorophyll"}

\* df.dropna(subset=available_cols, how='all'): a row stays when one of the
\* columns holds a value; with no such column no row stays
dropna_all(rows, available_cols) ==
    SelectSeq(rows, LAMBDA r : \E c \in available_cols : ~isna(r.cells[c]))

\* mutant: the bounds themselves count as out of range
invalid_mask_Exclusive(x, min_val, max_val) ==
    \/ ~isna(x) /\ x.n <= min_val * x.d
    \/ ~isna(x) /\ x.n >= max_val * x.d

\* (df[param] < min_val) | (df[param] > max_val)
invalid_mask(x, min_val, max_val) ==
    \/ Less(x, Float(min_val, 1))
    \/ Less(Float(max_val, 1), x)

\* the row after the loop over parameter_ranges: each out-of-range value is
\* nan, and quality_flag, when the frame has it, is 4 if any value was
ApplyRanges(r, columns) ==
    LET params == columns \cap DOMAIN parameter_ranges
        bad(p) == invalid_mask(r.cells[p], parameter_ranges[p][1], parameter_ranges[p][2])
    IN  MkRow(r.index,
              [c \in columns |->
                  IF c \in params /\ bad(c) THEN nan
                  ELSE IF c = "quality_flag" /\ \E p \in params : bad(p) THEN Float(4, 1)
                  ELSE r.cells[c]])

\* df.drop_duplicates(subset=[column], keep='first'); nan equals nan here
drop_duplicates(rows, column) ==
    LET first(i) == \A j \in 1..(i - 1) : rows[j].cells[column] # rows[i].cells[column]
    IN  Keep(rows, [i \in 1..Len(rows) |-> first(i)])

\* mutant: the sort keeps the rows in the order they have
sort_values_KeepsOrder(rows, column) == {rows}

\* df.sort_values(column): the orders the default (unstable) sort may give:
\* ascending, rows without a value last in their original order, equal values
\* in any order
sort_values(rows, column) ==
    LET n == Len(rows)
        perms == {p \in [1..n -> 1..n] : \A i, j \in 1..n : i # j => p[i] # p[j]}
        val(p, i) == rows[p[i]].cells[column]
        ok(p) == \A i, j \in 1..n : i < j =>
                    /\ ~Less(val(p, j), val(p, i))
                    /\ isna(val(p, i)) => isna(val(p, j)) /\ p[i] < p[j]
    IN  {[i \in 1..n |-> rows[p[i]]] : p \in {q \in perms : ok(q)}}

\* the frames a call of clean_measurements may return
clean_measurements(df) ==
    LET available_cols == measurement_cols \cap df.columns
        kept == dropna_all(df.rows, available_cols)
        ranged == [i \in 1..Len(kept) |-> ApplyRanges(kept[i], df.columns)]
        orders == IF "depth" \in df.columns
                  THEN sort_values(drop_duplicates(ranged, "depth"), "depth")
                  ELSE IF "pressure" \in df.columns
                  THEN sort_values(ranged, "pressure")
                  ELSE {ranged}
    IN  {MkFrame(df.columns, rows) : rows \in orders}

---------------------------------------------------------------------------
(* DataFrames handed to clean_measurements *)

\* values around the bounds of a parameter's range: missing, just below the
\* minimum, the minimum, the maximum, just above the maximum
AroundRange(param) ==
    LET min_val == parameter_ranges[param][1]
        max_val == parameter_ranges[param][2]
    IN  {nan, Tenths(10 * min_val - 1), Tenths(10 * min_val),
         Tenths(10 * max_val), Tenths(10 * max_val + 1)}

\* a missing value, the lower bound of a parameter and a value just above its upper bound
OneEachSide(param) ==
    LET min_val == parameter_ranges[param][1]
        max_val == parameter_ranges[param][2]
    IN  {nan, Tenths(10 * min_val), Tenths(10 * max_val + 1)}

\* a family of frames: its columns and the values each column may hold
Family(wide, narrow, flags) ==
    LET columns == wide \cup narrow \cup (IF flags = {} THEN {} ELSE {"quality_flag"})
    IN  [columns |-> columns,
         pool |-> [c \in columns |-> IF c = "quality_flag" THEN flags
                                     ELSE IF c \in wide THEN AroundRange(c)
                                     ELSE OneEachSide(c)]]

CleanFamilies ==
    { Family({"temperature"}, {"depth"}, {Float(1, 1)}),
      Family({"salinity"}, {"pressure"}, {}),
      Family({"oxygen"}, {"nitrate"}, {Float(2, 1)}),
      Family({"ph"}, {"chlorophyll"}, {}),
      Family({"depth"}, {}, {Float(1, 1), Float(2, 1)}),
      Family({"pressure"}, {"depth"}, {}),
      Family({"nitrate"}, {}, {}),
      Family({"chlorophyll"}, {}, {}) }

\* the rows (as cells) over some columns of a family: one value of its pool per column
RECURSIVE CellsOver(_, _)
CellsOver(fam, columns) ==
    IF columns = {} THEN {<< >>}
    ELSE LET c == CHOOSE x \in columns : TRUE
         IN  {(c :> x) @@ f : x \in fam.pool[c], f \in CellsOver(fam, columns \ {c})}

\* the rows (as cells) a family allows
CellsOf(fam) == CellsOver(fam, fam.columns)

\* the frames of a family with at most n rows, indexed 1.. in order
FramesOf(fam, n) ==
    LET cells == CellsOf(fam)
    IN  {MkFrame(fam.columns, [i \in 1..Len(s) |-> MkRow(i, s[i])]) :
            s \in UNION {[1..k -> cells] : k \in 0..n}}

MaxRows == 2

\* the frames given to clean_measurements, of at most n rows
CleanFrames(n) == UNION {FramesOf(fam, n) : fam \in CleanFamilies}

\* every other component is idle while the transformer runs
TransformerOnly ==
    /\ ds = EmptyDataset
    /\ hook = <<>>
    /\ var_type = "none"
    /\ found = Pending
    /\ file_type = "pending"
    /\ metadata = Pending
    /\ measurements = Pending
    /\ FilesIdle
    /\ DbIdle
    /\ mode_history = <<>>

nonTransformerVars == <<extractVars, fileVars, dbVars, mode_history>>

\* the frame the next call is given: the last one returned, or the first given
CurrentFrame == frames[Len(frames)]

InitClean ==
    /\ \E df \in CleanFrames(MaxRows) : frames = <<df>>
    /\ ops = <<>>
    /\ TransformerOnly

CleanMeasurements ==
    /\ ops = <<>>
    /\ \E out \in clean_measurements(CurrentFrame) : frames' = Append(frames, out)
    /\ ops' = Append(ops, "clean_measurements")
    /\ UNCHANGED nonTransformerVars

NextClean == CleanMeasurements

SpecClean == InitClean /\ [][NextClean]_vars

---------------------------------------------------------------------------
(* DataTransformer.interpolate_missing_depth *)

\* mutant: depth is taken from pressure wherever pressure has a value
interpolate_missing_depth_Overwrites(df) ==
    IF "pressure" \notin df.columns THEN df
    ELSE MkFrame(df.columns \cup {"depth"},
                 [i \in 1..Len(df.rows) |->
                     LET r == df.rows[i]
                     IN  MkRow(r.index,
                               [c \in df.columns \cup {"depth"} |->
                                   IF c = "depth" /\ ~isna(r.cells["pressure"])
                                   THEN r.cells["pressure"]
                                   ELSE IF c \in df.columns THEN r.cells[c] ELSE nan])])

interpolate_missing_depth(df) ==
    IF "depth" \notin df.columns /\ "pressure" \in df.columns
    THEN \* df['depth'] = df['pressure']
         MkFrame(df.columns \cup {"depth"},
                 [i \in 1..Len(df.rows) |->
                     LET r == df.rows[i]
                     IN  MkRow(r.index,
                               [c \in df.columns \cup {"depth"} |->
                                   IF c = "depth" THEN r.cells["pressure"] ELSE r.cells[c]])])
    ELSE IF "depth" \in df.columns /\ "pressure" \in df.columns
    THEN \* mask = df['depth'].isna() & df['pressure'].notna()
         MkFrame(df.columns,
                 [i \in 1..Len(df.rows) |->
                     LET r == df.rows[i]
                         mask == isna(r.cells["depth"]) /\ ~isna(r.cells["pressure"])
                     IN  MkRow(r.index,
                               [c \in df.columns |->
                                   IF c = "depth" /\ mask THEN r.cells["pressure"]
                                   ELSE r.cells[c]])])
    ELSE df

\* frames with and without a depth column and with and without a pressure column
InterpolateFamilies ==
    LET pool == [depth |-> {nan, Tenths(0), Tenths(1000)},
                 pressure |-> {nan, Tenths(50), Tenths(1000)},
                 temperature |-> {nan, Tenths(200)}]
        fam(columns) == [columns |-> columns, pool |-> [c \in columns |-> pool[c]]]
    IN  { fam({"depth", "pressure", "temperature"}),
          fam({"pressure", "temperature"}),
          fam({"depth", "temperature"}),
          fam({"temperature"}) }

InterpolateFrames(n) == UNION {FramesOf(fam, n) : fam \in InterpolateFamilies}

MaxApplications == 2

InitInterpolate ==
    /\ \E df \in InterpolateFrames(MaxRows) : frames = <<df>>
    /\ ops = <<>>
    /\ TransformerOnly

InterpolateMissingDepth ==
    /\ Len(ops) < MaxApplications
    /\ frames' = Append(frames, interpolate_missing_depth(CurrentFrame))
    /\ ops' = Append(ops, "interpolate_missing_depth")
    /\ UNCHANGED nonTransformerVars

NextInterpolate == InterpolateMissingDepth

SpecInterpolate == InitInterpolate /\ [][NextInterpolate]_vars

---------------------------------------------------------------------------
(* DataTransformer.calculate_derived_parameters *)

\* x - y, x + y and |x| on floats; nan when an operand is nan
Minus(x, y) ==
    IF isna(x) \/ isna(y) THEN nan
    ELSE IF x.d = y.d THEN Float(x.n - y.n, x.d)
    ELSE Float(x.n * y.d - y.n * x.d, x.d * y.d)
Plus(x, y) ==
    IF isna(x) \/ isna(y) THEN nan
    ELSE IF x.d = y.d THEN Float(x.n + y.n, x.d)
    ELSE Float(x.n * y.d + y.n * x.d, x.d * y.d)
Times(x, y) == IF isna(x) \/ isna(y) THEN nan ELSE Float(x.n * y.n, x.d * y.d)
Abs(x) == IF isna(x) THEN nan ELSE Float(IF x.n < 0 THEN -x.n ELSE x.n, x.d)

\* the sum of the values of a sequence that are not nan
RECURSIVE Sum(_)
Sum(xs) ==
    IF xs = <<>> THEN Float(0, 1)
    ELSE IF isna(Head(xs)) THEN Sum(Tail(xs)) ELSE Plus(Head(xs), Sum(Tail(xs)))

\* Series.mean(): the mean of the values that are not nan, nan when there is none
mean(xs) ==
    LET present == SelectSeq(xs, LAMBDA x : ~isna(x))
    IN  IF present = <<>> THEN nan
        ELSE Float(Sum(present).n, Sum(present).d * Len(present))

\* df['temperature'] - 0.1 * (df['pressure'] / 1000)
potential_temperature(t, p) ==
    IF isna(p) THEN nan ELSE Minus(t, Float(p.n, p.d * 10000))

\* 1000 + 0.8 * df['salinity'] - 0.2 * df['temperature']
density(t, s) ==
    IF isna(s) \/ isna(t) THEN nan
    ELSE Minus(Plus(Float(1000, 1), Float(8 * s.n, 10 * s.d)), Float(2 * t.n, 10 * t.d))

\* df[df['depth'] <= 10]['temperature'].mean()
surface_temp(df) ==
    LET shallow == SelectSeq(df.rows, LAMBDA r : ~isna(r.cells["depth"])
                                                 /\ ~Less(Float(10, 1), r.cells["depth"]))
    IN  mean([i \in 1..Len(shallow) |-> shallow[i].cells["temperature"]])

\* np.where(temp_diff > 0.2)[0]: the positions, in frame order, of the rows
\* whose temperature is more than 0.2 from the surface mean
mld_idx(df) ==
    LET s == surface_temp(df)
    IN  {i \in 1..Len(df.rows) :
            Less(Float(2, 10), Abs(Minus(df.rows[i].cells["temperature"], s)))}

\* the columns the call adds and, for one row, their values
DerivedColumns(df) ==
    (IF {"temperature", "pressure"} \subseteq df.columns THEN {"potential_temperature"} ELSE {})
    \cup (IF {"temperature", "salinity"} \subseteq df.columns THEN {"density"} ELSE {})
    \cup (IF /\ {"temperature", "depth"} \subseteq df.columns
             /\ ~isna(surface_temp(df))
             /\ mld_idx(df) # {}
          THEN {"mixed_layer_depth"} ELSE {})

\* df.iloc[mld_idx[0]]['depth']: the depth of the first such row in frame order
mixed_layer_depth(df) == df.rows[Min(mld_idx(df))].cells["depth"]

calculate_derived_parameters(df) ==
    LET added == DerivedColumns(df)
    IN  MkFrame(df.columns \cup added,
                [i \in 1..Len(df.rows) |->
                    LET r == df.rows[i]
                    IN  MkRow(r.index,
                              [c \in df.columns \cup added |->
                                  IF c \in added
                                  THEN CASE c = "potential_temperature" ->
                                                potential_temperature(r.cells["temperature"],
                                                                      r.cells["pressure"])
                                         [] c = "density" ->
                                                density(r.cells["temperature"], r.cells["salinity"])
                                         [] c = "mixed_layer_depth" -> mixed_layer_depth(df)
                                  ELSE r.cells[c]])])

\* profiles: depths at the surface, 50 m and 150 m, temperatures at, on and
\* beyond 0.2 from 20.0; and frames with the columns of the other two quantities
DerivedFamilies ==
    LET fam(pool) == [columns |-> DOMAIN pool, pool |-> pool]
    IN  { fam([depth |-> {nan, Tenths(50), Tenths(500), Tenths(1500)},
               temperature |-> {nan, Tenths(200), Tenths(195)}]),
          fam([depth |-> {Tenths(50), Tenths(500)},
               temperature |-> {Tenths(200), Tenths(202), Tenths(195)}]),
          fam([temperature |-> {Tenths(200), nan},
               pressure |-> {Tenths(1000), nan},
               salinity |-> {Tenths(350), nan}]),
          fam([temperature |-> {Tenths(200), nan}]) }

MaxProfileRows == 3

DerivedFrames(n) == UNION {FramesOf(fam, n) : fam \in DerivedFamilies}

InitDerived ==
    /\ \E df \in DerivedFrames(MaxProfileRows) : frames = <<df>>
    /\ ops = <<>>
    /\ TransformerOnly

CalculateDerivedParameters ==
    /\ ops = <<>>
    /\ frames' = Append(frames, calculate_derived_parameters(CurrentFrame))
    /\ ops' = Append(ops, "calculate_derived_parameters")
    /\ UNCHANGED nonTransformerVars

NextDerived == CalculateDerivedParameters

SpecDerived == InitDerived /\ [][NextDerived]_vars

---------------------------------------------------------------------------
(* DataTransformer.detect_anomalies *)

\* a cell of a boolean column
Bool(b) == [k |-> "bool", n |-> IF b THEN 1 ELSE 0, d |-> 1]

\* a cell holding the square root of the fraction n/d (a z-score)
Sqrt(x) == [k |-> "sqrt", n |-> x.n, d |-> x.d]

\* df[parameter].dropna()
dropna(xs) == SelectSeq(xs, LAMBDA x : ~isna(x))

\* the values in ascending order
RECURSIVE Sorted(_)
Sorted(xs) ==
    IF xs = <<>> THEN <<>>
    ELSE LET m == CHOOSE i \in 1..Len(xs) : \A j \in 1..Len(xs) : ~Less(xs[j], xs[i])
         IN  <<xs[m]>> \o Sorted(SubSeq(xs, 1, m - 1) \o SubSeq(xs, m + 1, Len(xs)))

\* data.quantile(q) for q = num/4, linear interpolation between the order
\* statistics around position q * (n - 1)
quantile(data, num) ==
    LET s == Sorted(data)
        pos == num * (Len(s) - 1)
        lo == pos \div 4
        r == pos % 4
    IN  IF r = 0 THEN Times(Float(4, 4), s[lo + 1])
        ELSE Plus(Times(Float(4 - r, 4), s[lo + 1]), Times(Float(r, 4), s[lo + 2]))

\* n * x - sum(data): n times the deviation of x from data.mean()
Deviation(x, data) == Minus(Times(Float(Len(data), 1), x), Sum(data))

\* the sum of the squares of n times the deviations of data from its mean
SquaredDeviations(data) ==
    Sum([i \in 1..Len(data) |-> Times(Deviation(data[i], data), Deviation(data[i], data))])

\* z_scores ** 2 = (x - mean)^2 / data.std()^2 with std over n - 1; nan when x
\* is nan or the deviations are all zero (0/0)
z_score_squared(x, data) ==
    LET dev2 == Times(Deviation(x, data), Deviation(x, data))
        ss == SquaredDeviations(data)
    IN  IF isna(x) \/ ss.n = 0 THEN nan
        ELSE Float((Len(data) - 1) * dev2.n * ss.d, ss.n * dev2.d)

\* (z_scores > 3) | (df[parameter] < lower) | (df[parameter] > upper)
anomaly_flag(x, data) ==
    LET q1 == quantile(data, 1)
        q3 == quantile(data, 3)
        iqr == Minus(q3, q1)
        lower_fence == Minus(q1, Times(Float(3, 2), iqr))
        upper_fence == Plus(q3, Times(Float(3, 2), iqr))
    IN  \/ Less(Float(9, 1), z_score_squared(x, data))
        \/ Less(x, lower_fence)
        \/ Less(upper_fence, x)

\* the sample-size floor
SampleFloor == 10

\* mutant: nine values are enough
too_few_BelowNine(data) == Len(data) < SampleFloor - 1

\* len(data) < 10
too_few(data) == Len(data) < SampleFloor

\* the frame with one more column, computed per row
WithColumn(df, column, value(_)) ==
    MkFrame(df.columns \cup {column},
            [i \in 1..Len(df.rows) |->
                MkRow(df.rows[i].index,
                      [c \in df.columns \cup {column} |->
                          IF c = column THEN value(df.rows[i]) ELSE df.rows[i].cells[c]])])

detect_anomalies(df, parameter) ==
    IF df.rows = <<>> \/ df.columns = {} \/ parameter \notin df.columns THEN df
    ELSE LET data == dropna([i \in 1..Len(df.rows) |-> df.rows[i].cells[parameter]])
             flag(r) == Bool(anomaly_flag(r.cells[parameter], data))
             z(r) == IF isna(z_score_squared(r.cells[parameter], data)) THEN nan
                     ELSE Sqrt(z_score_squared(r.cells[parameter], data))
             none(r) == Bool(FALSE)
         IN  IF too_few(data) THEN WithColumn(df, "anomaly_flag", none)
             ELSE WithColumn(WithColumn(df, "anomaly_flag", flag), "z_score", z)

\* the longest series given
MaxSeriesLen == 11

\* series of one parameter: a spread or a flat base, one value replaced by a
\* far or an ordinary value, and at most one value missing
AnomalySeries ==
    LET base(pat, i) == IF pat = "spread" THEN Float(9 + i, 1) ELSE Float(15, 1)
    IN  {[i \in 1..n |->
             IF i = m THEN nan ELSE IF i = k THEN x ELSE base(pat, i)] :
           n \in (SampleFloor - 1)..MaxSeriesLen, pat \in {"spread", "flat"},
           k \in 1..MaxSeriesLen, m \in 0..MaxSeriesLen,
           x \in {Float(500, 1), Float(-500, 1), Float(15, 1)}}

AnomalyFrames ==
    {MkFrame({"temperature"}, [i \in 1..Len(s) |-> MkRow(i, [temperature |-> s[i]])]) :
        s \in AnomalySeries \cup {<<>>}}

InitAnomalies ==
    /\ \E df \in AnomalyFrames : frames = <<df>>
    /\ ops = <<>>
    /\ TransformerOnly

\* ops records the method and its parameter argument
DetectAnomalies ==
    /\ ops = <<>>
    /\ \E parameter \in {"temperature", "salinity"} :
          /\ frames' = Append(frames, detect_anomalies(CurrentFrame, parameter))
          /\ ops' = <<"detect_anomalies", parameter>>
    /\ UNCHANGED nonTransformerVars

NextAnomalies == DetectAnomalies

SpecAnomalies == InitAnomalies /\ [][NextAnomalies]_vars

---------------------------------------------------------------------------
(* DataTransformer.create_time_series *)

default_depth_levels == <<10, 50, 100, 200, 500, 1000>>

\* the tolerance in `diff.iloc[idx] <= 50`
Tolerance == 50

\* np.abs(df['depth'] - depth), by position
depth_diff(df, depth) ==
    [k \in 1..Len(df.rows) |-> Abs(Minus(df.rows[k].cells["depth"], Float(depth, 1)))]

\* diff.idxmin(): the index label of the first row with the least difference,
\* rows without one skipped; 0 when no row has one (idxmin then gives nan or
\* raises, and nan is no position for iloc). A label is one more than the
\* pandas label, as a position is one more than the pandas position.
idxmin(df, diff) ==
    LET least == {k \in 1..Len(diff) :
                     /\ ~isna(diff[k])
                     /\ \A j \in 1..Len(diff) : ~Less(diff[j], diff[k])}
    IN  IF least = {} THEN 0 ELSE df.rows[Min(least)].index

\* diff.iloc[idx] raises: idx is no position of the frame
iloc_raises(df, depth) ==
    LET label == idxmin(df, depth_diff(df, depth))
    IN  label = 0 \/ label > Len(df.rows)

\* df.loc[idx]: the row with the label
loc(df, label) == df.rows[CHOOSE k \in 1..Len(df.rows) : df.rows[k].index = label]

\* the entries one depth level appends
level_entries(df, parameter, depth) ==
    LET diff == depth_diff(df, depth)
        label == idxmin(df, diff)
        val == loc(df, label).cells[parameter]
    IN  IF ~isna(diff[label]) /\ ~Less(Float(Tolerance, 1), diff[label]) /\ ~isna(val)
        THEN << [depth_level |-> Float(depth, 1), value |-> val,
                 actual_depth |-> loc(df, label).cells["depth"]] >>
        ELSE << >>

RECURSIVE series_of(_, _, _)
series_of(df, parameter, levels) ==
    IF levels = << >> THEN << >>
    ELSE level_entries(df, parameter, Head(levels)) \o series_of(df, parameter, Tail(levels))

\* pd.DataFrame(series)
SeriesFrame(series) ==
    MkFrame(IF series = << >> THEN {} ELSE {"depth_level", "value", "actual_depth"},
            [k \in 1..Len(series) |-> MkRow(k, series[k])])

\* mutant: the tolerance is not applied
create_time_series_AnyDistance(df, parameter, depth_levels) ==
    LET levels == IF depth_levels.given THEN depth_levels.levels ELSE default_depth_levels
        nearest(depth) ==
            LET label == idxmin(df, depth_diff(df, depth))
            IN  IF isna(loc(df, label).cells[parameter]) THEN << >>
                ELSE << [depth_level |-> Float(depth, 1), value |-> loc(df, label).cells[parameter],
                         actual_depth |-> loc(df, label).cells["depth"]] >>
        all == [i \in 1..Len(levels) |-> nearest(levels[i])]
        RECURSIVE flat(_)
        flat(i) == IF i > Len(levels) THEN << >> ELSE all[i] \o flat(i + 1)
    IN  IF df.rows = << >> \/ parameter \notin df.columns \/ "depth" \notin df.columns
        THEN [outcome |-> "returned", frame |-> SeriesFrame(<< >>)]
        ELSE IF \E i \in 1..Len(levels) : iloc_raises(df, levels[i])
        THEN [outcome |-> "raised", frame |-> SeriesFrame(<< >>)]
        ELSE [outcome |-> "returned", frame |-> SeriesFrame(flat(1))]

\* the call returns a frame or raises (nothing in the method catches)
create_time_series(df, parameter, depth_levels) ==
    LET levels == IF depth_levels.given THEN depth_levels.levels ELSE default_depth_levels
    IN  IF df.rows = << >> \/ parameter \notin df.columns
        THEN [outcome |-> "returned", frame |-> SeriesFrame(<< >>)]
        ELSE IF "depth" \notin df.columns
        THEN [outcome |-> "returned", frame |-> SeriesFrame(<< >>)]
        ELSE IF \E i \in 1..Len(levels) : iloc_raises(df, levels[i])
        THEN [outcome |-> "raised", frame |-> SeriesFrame(<< >>)]
        ELSE [outcome |-> "returned", frame |-> SeriesFrame(series_of(df, parameter, levels))]

---------------------------------------------------------------------------
(* Record sets cleaned and then handed to create_time_series *)

\* depths near the surface, 40 m and 50 m from the 100 m level, and missing;
\* and record sets without a depth field
TimeSeriesFamilies ==
    LET fam(pool) == [columns |-> DOMAIN pool, pool |-> pool]
    IN  { fam([depth |-> {nan, Tenths(50), Tenths(600), Tenths(1500)},
               temperature |-> {nan, Tenths(200)}]),
          fam([pressure |-> {Tenths(50)}, temperature |-> {nan, Tenths(200)}]) }

MaxRecords == 3

TimeSeriesFrames(n) == UNION {FramesOf(fam, n) : fam \in TimeSeriesFamilies}

\* depth_levels: not given (None), or a list
RequestedLevels ==
    { [given |-> FALSE, levels |-> << >>],
      [given |-> TRUE, levels |-> <<100>>],
      [given |-> TRUE, levels |-> <<200, 10>>] }

InitTimeSeries ==
    /\ \E df \in TimeSeriesFrames(MaxRecords) : frames = <<df>>
    /\ ops = <<>>
    /\ TransformerOnly

\* ops records the method, its arguments and whether it returned or raised
CreateTimeSeries ==
    /\ ops = <<"clean_measurements">>
    /\ \E parameter \in {"temperature", "salinity"} : \E depth_levels \in RequestedLevels :
          LET out == create_time_series(CurrentFrame, parameter, depth_levels)
          IN  /\ frames' = Append(frames, out.frame)
              /\ ops' = <<"clean_measurements", "create_time_series", parameter,
                          depth_levels, out.outcome>>
    /\ UNCHANGED nonTransformerVars

NextTimeSeries == CleanMeasurements \/ CreateTimeSeries

SpecTimeSeries == InitTimeSeries /\ [][NextTimeSeries]_vars

---------------------------------------------------------------------------
(* NetCDFProcessor.__init__ (mode) and NetCDFProcessor.set_mode *)

\* the values set_mode accepts
valid_modes == {"argo", "flexible", "auto"}

\* mode strings a caller may give: the valid ones, a wrong case, the name the
\* documentation uses for the strict mode, and the empty string
ModeStrings == valid_modes \cup {"ARGO", "strict-profile", ""}

MaxSetModeCalls == 2

\* __init__: self.mode = mode, stored as given
InitConfiguration ==
    /\ mode \in ModeStrings
    /\ mode_history = <<mode>>
    /\ file_paths = <<>>
    /\ idx = 1
    /\ results = <<>>
    /\ pc = "idle"
    /\ handles = {}
    /\ opened = 0
    /\ profile_metadata = Pending
    /\ calls = <<>>
    /\ ds = EmptyDataset
    /\ hook = <<>>
    /\ var_type = "none"
    /\ found = Pending
    /\ file_type = "pending"
    /\ metadata = Pending
    /\ measurements = Pending
    /\ DbIdle
    /\ TransformerIdle

\* set_mode: a valid string is stored, any other string stores 'flexible'
set_mode(m) == IF m \in valid_modes THEN m ELSE "flexible"

SetMode ==
    /\ Len(mode_history) <= MaxSetModeCalls
    /\ \E m \in ModeStrings :
          /\ mode' = set_mode(m)
          /\ mode_history' = Append(mode_history, m)
    /\ UNCHANGED <<file_paths, idx, results, pc, handles, opened, profile_metadata, calls>>
    /\ UNCHANGED <<extractVars, dbVars, transformerVars>>

NextConfiguration == SetMode

SpecConfiguration == InitConfiguration /\ [][NextConfiguration]_vars

---------------------------------------------------------------------------
(* Claims about the resolver and the classifier *)

VarNameSet(d) == {d.variables[j].name : j \in 1..Len(d.variables)}

AliasesOf(vt) ==
    IF vt \in DOMAIN variable_mappings THEN Range(variable_mappings[vt]) ELSE {}

\* position of a variable name in ds.variables
PosOf(d, name) == CHOOSE j \in 1..Len(d.variables) : d.variables[j].name = name

\* C8: when some alias of the canonical field is exactly the name of a dataset
\* variable, find_variable returns the matching alias that comes earliest in
\* the field's alias list, whatever the order of the dataset's variables.
C8_EarliestAliasWins ==
    (found # Pending /\ var_type \in DOMAIN variable_mappings) =>
        LET al == variable_mappings[var_type]
        IN  \A i \in 1..Len(al) :
                (/\ al[i] \in VarNameSet(ds)
                 /\ \A h \in 1..(i - 1) : al[h] \notin VarNameSet(ds))
                => found = Str(al[i])

\* two aliases are dataset variables, the later alias comes first in the
\* dataset, and the earlier alias was returned
C8_Witness ==
    /\ found # Pending
    /\ var_type \in DOMAIN variable_mappings
    /\ LET al == variable_mappings[var_type]
       IN  \E i, h \in 1..Len(al) :
              /\ i < h
              /\ al[i] \in VarNameSet(ds)
              /\ al[h] \in VarNameSet(ds)
              /\ PosOf(ds, al[h]) < PosOf(ds, al[i])
              /\ \A g \in 1..(i - 1) : al[g] \notin VarNameSet(ds)
              /\ found = Str(al[i])

\* the dataset variables each pass can match, as sets
Pass1Matches(d, vt) == VarNameSet(d) \cap AliasesOf(vt)
Pass2Matches(d, vt) ==
    {n \in VarNameSet(d) : \E a \in AliasesOf(vt) : lower(a) = lower(n)}
Pass3Matches(d, vt) ==
    {n \in VarNameSet(d) : \E a \in AliasesOf(vt) : contains(lower(n), lower(a))}
Pass4Matches(d, vt) ==
    {n \in VarNameSet(d) : \E a \in AliasesOf(vt) :
        \/ contains(lower(GetVar(d, n).long_name), lower(a))
        \/ contains(lower(GetVar(d, n).standard_name), lower(a))}

StrSet(S) == {Str(n) : n \in S}

\* C9: find_variable returns a match of the lowest-numbered pass that has a
\* match (exact, case-insensitive, substring of a name, substring of
\* long_name/standard_name), and None exactly when no pass has a match.
C9_StrictPassPriority ==
    found # Pending =>
        LET m1 == Pass1Matches(ds, var_type)
            m2 == Pass2Matches(ds, var_type)
            m3 == Pass3Matches(ds, var_type)
            m4 == Pass4Matches(ds, var_type)
        IN  /\ m1 # {} => found \in StrSet(m1)
            /\ (m1 = {} /\ m2 # {}) => found \in StrSet(m2)
            /\ (m1 = {} /\ m2 = {} /\ m3 # {}) => found \in StrSet(m3)
            /\ (m1 = {} /\ m2 = {} /\ m3 = {} /\ m4 # {}) => found \in StrSet(m4)
            /\ (found = NoneV) <=> (m1 = {} /\ m2 = {} /\ m3 = {} /\ m4 = {})

\* pass 2 decided although a variable that only pass 3 matches comes first in
\* the dataset
C9_Witness ==
    /\ found # Pending
    /\ Pass1Matches(ds, var_type) = {}
    /\ \E n2 \in Pass2Matches(ds, var_type) :
       \E n3 \in Pass3Matches(ds, var_type) \ Pass2Matches(ds, var_type) :
          /\ PosOf(ds, n3) < PosOf(ds, n2)
          /\ found = Str(n2)

\* pass 4 decided: no name matches, an attribute does
C9_WitnessAttribute ==
    /\ found # Pending
    /\ Pass3Matches(ds, var_type) = {}
    /\ found \in StrSet(Pass4Matches(ds, var_type))

RequiredPresent(d) == {n \in Range(argo_required_variables) : n \in VarNameSet(d)}

HasOceanKeyword(d) ==
    \E n \in VarNameSet(d) : \E w \in Range(ocean_indicators) :
        \/ contains(lower(n), w)
        \/ contains(lower(GetVar(d, n).long_name), w)

\* C10: detect_file_type returns the profile type exactly when at least 2 of
\* PRES, TEMP, PSAL are dataset variables; with 0 or 1 of them it returns
\* oceanographic when a variable name or long_name contains (case-insensitively)
\* an ocean keyword, and general otherwise.
C10_ClassifierThreshold ==
    file_type # "pending" =>
        /\ (file_type = "argo") <=> (Cardinality(RequiredPresent(ds)) >= 2)
        /\ Cardinality(RequiredPresent(ds)) < 2 =>
              file_type = IF HasOceanKeyword(ds) THEN "oceanographic" ELSE "general"

\* exactly one required variable and an ocean keyword: not the profile type
C10_Witness ==
    /\ Cardinality(RequiredPresent(ds)) = 1
    /\ HasOceanKeyword(ds)
    /\ file_type = "oceanographic"

\* exactly two required variables: the profile type
C10_WitnessTwo ==
    /\ Cardinality(RequiredPresent(ds)) = 2
    /\ file_type = "argo"

\* the canonical fields other than the one asked for that resolve to the
\* variable found
AlsoResolvedAs(d, vt, name) == {g \in VarTypes \ {vt} : find_variable(d, g) = name}

\* C30: distinct canonical fields resolve to distinct raw variables: the
\* variable find_variable returns for one field is returned for no other
\* field of the same dataset.
C30_DistinctFieldsDistinctVariables ==
    (found # Pending /\ found # NoneV) => AlsoResolvedAs(ds, var_type, found) = {}

\* the variable found for temperature by its own name is also the one found
\* for time
C30_WitnessSharedVariable ==
    /\ var_type = "temperature"
    /\ found = Str(<<"T","E","M","P">>)
    /\ "time" \in AlsoResolvedAs(ds, var_type, found)

---------------------------------------------------------------------------
(* Claims about the metadata extractor *)

DocumentedFields ==
    {"file_type", "float_id", "cycle_number", "latitude", "longitude",
     "measurement_date", "data_center", "dimensions", "variables"}

ClassifierValues == {"argo", "oceanographic", "general"}

\* C5: extract_profile_metadata returns, on every exit path, a structure in
\* which every documented field is present and the classification is one of
\* the classifier's three values.
C5_FullyPopulated ==
    metadata # Pending =>
        /\ DocumentedFields \subseteq DOMAIN metadata
        /\ metadata["file_type"] \in ClassifierValues

\* the path C5 is about was taken: the extractor returned from its handler
C5_HandlerPathTaken == metadata # Pending /\ MetadataRaises(ds)

\* a sibling resolved from a dataset variable or attribute
PlatformResolved(d) == PlatformField(d) # NoneV
CycleResolved(d) == FirstUsableVar(d, cycle_vars, IntFloatOk) # 0
DataCenterResolved(d) ==
    FirstUsableVar(d, dc_vars, Always) # 0 \/ FirstUsableAttr(d, dc_attrs, Always) # 0
CoordinateResolved(d, vt) ==
    ResolvedValue(d, vt) # NoneV /\ float(ResolvedValue(d, vt)).k = "num"

Holds(m, key, value) == key \in DOMAIN m /\ m[key] = value

\* C6: when one field cannot be converted (the conversion of a coordinate or
\* of the time value raises), only that field takes its default: every sibling
\* field resolved from the dataset (platform identifier, cycle number, the
\* other coordinate, data center) keeps its resolved value.
C6_SiblingsKeepResolvedValues ==
    (metadata # Pending /\ MetadataRaises(ds)) =>
        /\ PlatformResolved(ds) => Holds(metadata, "float_id", PlatformField(ds))
        /\ CycleResolved(ds) => Holds(metadata, "cycle_number", CycleField(ds))
        /\ DataCenterResolved(ds) => Holds(metadata, "data_center", DataCenterField(ds))
        /\ CoordinateResolved(ds, "latitude") =>
              Holds(metadata, "latitude", float(ResolvedValue(ds, "latitude")))
        /\ CoordinateResolved(ds, "longitude") =>
              Holds(metadata, "longitude", float(ResolvedValue(ds, "longitude")))

\* the profile-level fields and the key each has in the returned dictionary
ProfileFields ==
    {"float_id", "cycle_number", "latitude", "longitude", "measurement_date", "data_center"}

\* what the field's variable yields: NoneV when no variable is found, when it
\* holds no single value, or when the value cannot be converted or is NaN
VariableTier(d, field) ==
    CASE field = "float_id" ->
            LET i == FirstUsableVar(d, platform_vars, Always)
            IN  IF i = 0 THEN NoneV ELSE str(safe_extract_value(GetVar(d, platform_vars[i])))
      [] field = "cycle_number" ->
            LET i == FirstUsableVar(d, cycle_vars, IntFloatOk)
            IN  IF i = 0 THEN NoneV ELSE int_float(safe_extract_value(GetVar(d, cycle_vars[i])))
      [] field \in {"latitude", "longitude"} ->
            IF CoordinateResolved(d, field) THEN float(ResolvedValue(d, field)) ELSE NoneV
      [] field = "measurement_date" ->
            IF CoordinateResolved(d, "time")
            THEN convert_time_to_datetime(GetVar(d, find_variable(d, "time").v),
                                          ResolvedValue(d, "time"))
            ELSE NoneV
      [] field = "data_center" ->
            LET i == FirstUsableVar(d, dc_vars, Always)
            IN  IF i = 0 THEN NoneV ELSE str(safe_extract_value(GetVar(d, dc_vars[i])))

\* the candidate global attributes of a field (none for the cycle number and
\* the timestamp)
CandidateAttrs(field) ==
    CASE field = "float_id" -> platform_attrs
      [] field = "latitude" -> lat_attrs
      [] field = "longitude" -> lon_attrs
      [] field = "data_center" -> dc_attrs
      [] OTHER -> <<>>

\* what the field's candidate attributes yield
AttributeTier(d, field) ==
    IF field \in {"latitude", "longitude"}
    THEN LET a == FirstUsableAttr(d, CandidateAttrs(field), FloatOk)
         IN  IF a = 0 THEN NoneV ELSE float(d.attrs[CandidateAttrs(field)[a]])
    ELSE LET a == FirstUsableAttr(d, CandidateAttrs(field), Always)
         IN  IF a = 0 THEN NoneV ELSE str(d.attrs[CandidateAttrs(field)[a]])

HardDefault(field) ==
    CASE field \in {"float_id", "data_center"} -> Unknown
      [] field \in {"cycle_number", "latitude", "longitude"} -> Num(0)
      [] field = "measurement_date" -> Now

FirstYieldingTier(d, field) ==
    IF VariableTier(d, field) # NoneV THEN VariableTier(d, field)
    ELSE IF AttributeTier(d, field) # NoneV THEN AttributeTier(d, field)
    ELSE HardDefault(field)

\* C21: every profile-level field of the returned metadata holds the value of
\* the first tier that yields one, in the order variable, global attribute,
\* hard default; the default appears only when both earlier tiers yield nothing.
C21_FirstYieldingTier ==
    metadata # Pending =>
        \A field \in ProfileFields : Holds(metadata, field, FirstYieldingTier(ds, field))

\* C21 on the returns that do not come from the handler
C21_FirstYieldingTierUnlessRaised ==
    (metadata # Pending /\ ~MetadataRaises(ds)) =>
        \A field \in ProfileFields : Holds(metadata, field, FirstYieldingTier(ds, field))

\* an attribute was used for a coordinate whose variable held NaN
C21_WitnessAttributeTier ==
    /\ metadata # Pending
    /\ ~MetadataRaises(ds)
    /\ ResolvedValue(ds, "latitude") = NaN
    /\ AttributeTier(ds, "latitude") # NoneV
    /\ metadata["latitude"] = AttributeTier(ds, "latitude")

\* the variable resolved as time and the value taken from it
TimeVar == GetVar(ds, find_variable(ds, "time").v)
TimeValue == ResolvedValue(ds, "time")

DaysSince1950 ==
    <<"d","a","y","s"," ","s","i","n","c","e"," ","1","9","5","0","-","0","1","-","0","1">>
SecondsSince == <<"s","e","c","o","n","d","s"," ","s","i","n","c","e"," ">>
HoursSince == <<"h","o","u","r","s"," ","s","i","n","c","e"," ">>

\* the unit string is `<prefix><date>...`
UnitWithDate(units, prefix) ==
    /\ Len(units) >= Len(prefix) + 10
    /\ SubSeq(units, 1, Len(prefix)) = prefix
    /\ IsDateAt(units, Len(prefix) + 1)

DateAfter(units, prefix) == SubSeq(units, Len(prefix) + 1, Len(prefix) + 10)

\* convert_time_to_datetime was called and its result stored
TimeConverted ==
    metadata # Pending /\ ~MetadataRaises(ds) /\ CoordinateResolved(ds, "time")

\* C22: for each of the three recognized unit patterns the timestamp is the
\* base date plus the raw value in the declared unit: 1950-01-01 plus days,
\* <date> plus seconds, <date> plus hours; never the wall-clock time.
C22_RecognizedUnitsConverted ==
    TimeConverted =>
        LET units == TimeVar.units
            amount == float(TimeValue).v
        IN  /\ UnitWithDate(units, DaysSince1950) \/ units = DaysSince1950 =>
                  metadata["measurement_date"] = DateV(EpochArgo, "days", amount)
            /\ UnitWithDate(units, SecondsSince) =>
                  metadata["measurement_date"] =
                      DateV(DateAfter(units, SecondsSince), "seconds", amount)
            /\ UnitWithDate(units, HoursSince) =>
                  metadata["measurement_date"] =
                      DateV(DateAfter(units, HoursSince), "hours", amount)

\* C22 for the two patterns other than "hours since"
C22_DaysAndSecondsConverted ==
    TimeConverted =>
        LET units == TimeVar.units
            amount == float(TimeValue).v
        IN  /\ UnitWithDate(units, DaysSince1950) =>
                  metadata["measurement_date"] = DateV(EpochArgo, "days", amount)
            /\ UnitWithDate(units, SecondsSince) =>
                  metadata["measurement_date"] =
                      DateV(DateAfter(units, SecondsSince), "seconds", amount)

\* a value in "seconds since <date>" was converted
C22_WitnessSeconds ==
    /\ TimeConverted
    /\ UnitWithDate(TimeVar.units, SecondsSince)
    /\ metadata["measurement_date"].unit = "seconds"

\* a value in "hours since <date>" came back as the wall-clock time
C22_WitnessHoursIsNow ==
    /\ TimeConverted
    /\ UnitWithDate(TimeVar.units, HoursSince)
    /\ metadata["measurement_date"] = Now

---------------------------------------------------------------------------
(* Claims about the measurement extractor *)

MeasurementFields ==
    {"pressure", "depth", "temperature", "salinity", "oxygen", "nitrate", "ph",
     "chlorophyll"}

\* the source element of the variable resolved for a field at level i: index i
\* of the first dimension and index 0 of the others, "absent" when the field
\* has no variable or the variable has no such element
RawElement(d, field, i) ==
    IF find_variable(d, field) = NoneV THEN [k |-> "absent", v |-> 0]
    ELSE LET var == GetVar(d, find_variable(d, field).v)
         IN  IF Len(var.shape) = 0 THEN var.data[1]
             ELSE IF i <= var.shape[1] /\ \A q \in 2..Len(var.shape) : var.shape[q] >= 1
             THEN var.data[i]
             ELSE [k |-> "absent", v |-> 0]

\* float() of a slice of more than one element raises
SliceFails(d, field) ==
    /\ find_variable(d, field) # NoneV
    /\ LET var == GetVar(d, find_variable(d, field).v)
       IN  Len(var.shape) >= 3 /\ SizeOf(SubSeq(var.shape, 3, Len(var.shape))) # 1

\* a field at a level fails to extract or convert
FieldFails(d, field, i) ==
    RawElement(d, field, i).k \in {"absent", "str"} \/ SliceFails(d, field)

NoDenial(d, h) == \A i \in 1..n_levels_of(d) : h[i] # "false"

ExtractedDepth(d, i) ==
    IF FieldFails(d, "depth", i) THEN NoneV ELSE RawElement(d, "depth", i)

\* C13: in every returned record depth is None only if pressure is None; a
\* level for which no depth value was extracted and a pressure value was has
\* depth equal to pressure, and an extracted depth value is kept as it is.
C13_DepthBackfilledFromPressure ==
    measurements # Pending =>
        /\ \A k \in 1..Len(measurements.v) :
              measurements.v[k]["depth"] = NoneV => measurements.v[k]["pressure"] = NoneV
        /\ NoDenial(ds, hook) =>
              \A i \in 1..Len(measurements.v) :
                  LET rec == measurements.v[i]
                  IN  /\ (ExtractedDepth(ds, i) = NoneV /\ rec["pressure"] # NoneV)
                            => rec["depth"] = rec["pressure"]
                      /\ ExtractedDepth(ds, i) # NoneV
                            => rec["depth"] = ExtractedDepth(ds, i)

\* a dataset without a depth variable gave a record whose depth is its
\* pressure, next to a record that has neither
C13_Witness ==
    /\ measurements # Pending
    /\ NoDenial(ds, hook)
    /\ find_variable(ds, "depth") = NoneV
    /\ \E i, j \in 1..Len(measurements.v) :
          /\ measurements.v[i]["pressure"].k = "num"
          /\ measurements.v[i]["depth"] = measurements.v[i]["pressure"]
          /\ measurements.v[j]["pressure"] = NoneV
          /\ measurements.v[j]["depth"] = NoneV

\* an extracted depth was kept although a different pressure was extracted
C13_WitnessKept ==
    /\ measurements # Pending
    /\ NoDenial(ds, hook)
    /\ \E i \in 1..Len(measurements.v) :
          /\ measurements.v[i]["depth"].k = "num"
          /\ measurements.v[i]["pressure"].k = "num"
          /\ measurements.v[i]["depth"] # measurements.v[i]["pressure"]

\* a raw name under which each canonical measurement field is known
KnownName ==
    [pressure |-> <<"P","R","E","S">>,
     depth |-> <<"D","E","P","T","H">>,
     temperature |-> <<"T","E","M","P">>,
     salinity |-> <<"P","S","A","L">>,
     oxygen |-> <<"D","O","X","Y">>,
     nitrate |-> <<"N","I","T","R","A","T","E">>,
     ph |-> <<"P","H","_","I","N","_","S","I","T","U","_","T","O","T","A","L">>,
     chlorophyll |-> <<"C","H","L","A">>]

\* C20: each of the eight canonical measurement fields is resolved to a raw
\* variable: when the dataset has a one-dimensional variable under the
\* field's known name (nitrate, ph and chlorophyll as the others), every
\* record holds that variable's value of its level in the field.
C20_EveryCanonicalFieldResolved ==
    (measurements # Pending /\ NoDenial(ds, hook)) =>
        \A f \in MeasurementFields :
            HasVar(ds, KnownName[f]) =>
                LET var == GetVar(ds, KnownName[f])
                IN  \A i \in 1..Len(measurements.v) :
                        (Len(var.shape) = 1 /\ i <= var.shape[1] /\ var.data[i].k = "num")
                            => measurements.v[i][f] = var.data[i]

\* the part that holds: the five fields that have an entry in variable_mappings
C20_MappedFieldsResolved ==
    (measurements # Pending /\ NoDenial(ds, hook)) =>
        \A f \in MeasurementFields \ {"nitrate", "ph", "chlorophyll"} :
            HasVar(ds, KnownName[f]) =>
                LET var == GetVar(ds, KnownName[f])
                IN  \A i \in 1..Len(measurements.v) :
                        (Len(var.shape) = 1 /\ i <= var.shape[1] /\ var.data[i].k = "num")
                            => measurements.v[i][f] = var.data[i]

\* the ordered list of conventional vertical-dimension names
VerticalNames ==
    << <<"N","_","L","E","V","E","L","S">>, <<"n","_","l","e","v","e","l","s">>,
       <<"d","e","p","t","h">>, <<"t","i","m","e">>, <<"l","e","v","e","l">>, <<"z">> >>

\* the listed names the dataset has as dimensions, by position in the list
ListedPresent(d) == {i \in 1..Len(VerticalNames) : HasDim(d, VerticalNames[i])}

\* the size of the vertical axis: of the first listed dimension present, else
\* of the largest dimension, 0 for a dataset without dimensions
AxisSize(d) ==
    IF ListedPresent(d) # {} THEN DimSize(d, VerticalNames[Min(ListedPresent(d))])
    ELSE IF d.sizes = <<>> THEN 0
    ELSE LET sizes == {d.sizes[j].size : j \in 1..Len(d.sizes)}
         IN  CHOOSE m \in sizes : \A n \in sizes : n <= m

NothingDenied(d, h) == \A i \in 1..AxisSize(d) : h[i] # "false"

\* C23: the vertical axis is the first dimension present from the ordered
\* list, else the largest dimension: with no record denied there is one
\* record per index of that axis, and an axis of size 0 (or a dataset
\* without dimensions) gives the empty list, returned and not raised.
C23_VerticalAxis ==
    measurements # Pending =>
        /\ measurements.k = "list"
        /\ NothingDenied(ds, hook) => Len(measurements.v) = AxisSize(ds)
        /\ AxisSize(ds) = 0 => measurements.v = <<>>

\* a listed dimension was chosen although another dimension is larger and
\* comes first in the dataset
C23_Witness ==
    /\ measurements # Pending
    /\ NothingDenied(ds, hook)
    /\ ListedPresent(ds) # {}
    /\ \E j \in 1..Len(ds.sizes) : ds.sizes[j].size > AxisSize(ds)
    /\ Len(measurements.v) = AxisSize(ds)
    /\ Len(measurements.v) > 0

\* no listed dimension: the largest one was chosen, not the first
C23_WitnessLargest ==
    /\ measurements # Pending
    /\ NothingDenied(ds, hook)
    /\ ListedPresent(ds) = {}
    /\ ds.sizes # <<>>
    /\ ds.sizes[1].size < Len(measurements.v)

\* an axis of size 0, and a dataset without dimensions, gave the empty list
C23_WitnessEmpty ==
    /\ measurements # Pending
    /\ measurements.v = <<>>
    /\ Len(ds.variables) > 0
    /\ \/ ds.sizes = <<>>
       \/ ListedPresent(ds) # {} /\ AxisSize(ds) = 0

\* the variable resolved for a field
FieldVar(d, field) == GetVar(d, find_variable(d, field).v)

\* the element the rank-aware indexing designates at level i: the single
\* value of a 0-dimensional variable, else the element at index i of the
\* first dimension and index 0 of the others; NoneV beyond the first dimension
Designated(var, i) ==
    IF Len(var.shape) = 0 THEN var.data[1]
    ELSE IF i <= var.shape[1] THEN var.data[i]
    ELSE NoneV

\* the variable has an element at index 0 of every dimension after the first
HasFirstElements(var) == \A q \in 2..Len(var.shape) : var.shape[q] >= 1

\* C24: for a resolved variable and level i the extracted value is the
\* variable's single value (0 dimensions), its element i (1 dimension), or,
\* for 2 or more dimensions, the element at index i of the first dimension
\* and index 0 of every remaining one; a level beyond the first dimension
\* gives a missing value.
C24_RankAwareIndexing ==
    (measurements # Pending /\ NoDenial(ds, hook)) =>
        \A f \in MeasurementFields \ {"depth"} : \A i \in 1..Len(measurements.v) :
            (find_variable(ds, f) # NoneV /\ HasFirstElements(FieldVar(ds, f))
                /\ Designated(FieldVar(ds, f), i).k # "str")
                => measurements.v[i][f] = Designated(FieldVar(ds, f), i)

\* C24 for variables of at most two dimensions
C24_UpToTwoDimensions ==
    (measurements # Pending /\ NoDenial(ds, hook)) =>
        \A f \in MeasurementFields \ {"depth"} : \A i \in 1..Len(measurements.v) :
            (find_variable(ds, f) # NoneV /\ HasFirstElements(FieldVar(ds, f))
                /\ Len(FieldVar(ds, f).shape) <= 2
                /\ Designated(FieldVar(ds, f), i).k # "str")
                => measurements.v[i][f] = Designated(FieldVar(ds, f), i)

\* values came from a 0-dimensional, a short 1-dimensional and a
\* 2-dimensional variable
C24_WitnessRanks ==
    /\ measurements # Pending
    /\ NoDenial(ds, hook)
    /\ Len(measurements.v) = 2
    /\ \E f \in MeasurementFields \ {"depth"} :
          /\ find_variable(ds, f) # NoneV
          /\ Len(FieldVar(ds, f).shape) = 2
          /\ measurements.v[2][f] = FieldVar(ds, f).data[2]
    /\ \E f \in MeasurementFields \ {"depth"} :
          /\ find_variable(ds, f) # NoneV
          /\ \/ Len(FieldVar(ds, f).shape) = 0 /\ measurements.v[2][f] = FieldVar(ds, f).data[1]
             \/ FieldVar(ds, f).shape = <<1>> /\ measurements.v[2][f] = NoneV

\* a 3-dimensional variable gave a missing value at a level it has
C24_WitnessThreeDimensions ==
    /\ measurements # Pending
    /\ NoDenial(ds, hook)
    /\ \E f \in MeasurementFields \ {"depth"} : \E i \in 1..Len(measurements.v) :
          /\ find_variable(ds, f) # NoneV
          /\ Len(FieldVar(ds, f).shape) = 3
          /\ Designated(FieldVar(ds, f), i).k = "num"
          /\ measurements.v[i][f] = NoneV

\* the levels whose record the hook did not deny
NotDenied(d, h) == {i \in 1..AxisSize(d) : h[i] # "false"}

\* the k-th of them in level order
KthNotDenied(d, h, k) ==
    CHOOSE i \in NotDenied(d, h) : Cardinality({j \in NotDenied(d, h) : j <= i}) = k

\* C25: the hook never makes extract_measurements raise or discard the
\* profile: the output is exactly the in-order subsequence of the per-level
\* records that the hook did not deny; a record for which the hook raises
\* is kept.
C25_HookContained ==
    measurements # Pending =>
        /\ measurements.k = "list"
        /\ Len(measurements.v) = Cardinality(NotDenied(ds, hook))
        /\ \A k \in 1..Len(measurements.v) :
              measurements.v[k] =
                  LevelRecord(ds, measurements_cols(ds), KthNotDenied(ds, hook, k))

\* the hook denied the first record and raised for the second: the output
\* is the second record alone, and it differs from the first
C25_Witness ==
    /\ measurements # Pending
    /\ AxisSize(ds) = 2
    /\ hook[1] = "false"
    /\ hook[2] = "raise"
    /\ measurements.v = <<LevelRecord(ds, measurements_cols(ds), 2)>>
    /\ LevelRecord(ds, measurements_cols(ds), 1) # LevelRecord(ds, measurements_cols(ds), 2)

---------------------------------------------------------------------------
(* Claims about file and batch processing *)

\* the file meets none of the four fatal conditions
Processable(path, m) ==
    LET f == FileSystem[path]
    IN  /\ f.exists
        /\ f.openable
        /\ Len(f.dataset.variables) > 0
        /\ ~(m = "argo" /\ RequiredPresent(f.dataset) = {})

\* the pair a successful process_file call returns for the file
ExpectedPair(path) ==
    LET f == FileSystem[path]
    IN  << extract_profile_metadata(f.dataset)
              @@ [file_hash |-> f.hash, file_path |-> path],
           extract_measurements(f.dataset, FallbackHook) >>

RECURSIVE ExpectedResults(_, _)
ExpectedResults(paths, m) ==
    IF paths = <<>> THEN <<>>
    ELSE (IF Processable(Head(paths), m) THEN <<ExpectedPair(Head(paths))>> ELSE <<>>)
         \o ExpectedResults(Tail(paths), m)

\* C1: process_multiple_files never raises; a file whose process_file call
\* fails is skipped and every later file is still processed, so the returned
\* list is exactly the pairs of the files that process successfully, in input
\* order.
C1_BatchIsolatesFailures ==
    /\ pc # "pmf_raised"
    /\ pc = "done" =>
          /\ Len(calls) = Len(file_paths)
          /\ \A i \in 1..Len(calls) : calls[i].path = file_paths[i]
          /\ results = ExpectedResults(file_paths, mode)

\* a batch finished in which a failing file precedes a successful one
C1_Witness ==
    /\ pc = "done"
    /\ \E i, j \in 1..Len(file_paths) :
          /\ i < j
          /\ calls[i].outcome = "raised"
          /\ calls[j].outcome = "returned"
    /\ Len(results) = 1

\* control points outside every `with xr.open_dataset(...)` block
OutsideDatasetBlocks ==
    {"idle", "pmf_loop", "validate_file", "pf_raise", "pmf_except", "pf_open",
     "pf_return", "pmf_raised", "done"}

\* C2: at most one dataset handle is open at any time, and every handle opened
\* for a file is closed before process_file returns or raises and before the
\* next file is opened, also when validation fails.
C2_SingleScopedHandle ==
    /\ Cardinality(handles) <= 1
    /\ pc \in OutsideDatasetBlocks => handles = {}

\* validation failed on an opened dataset of the second file, and nothing is open
C2_Witness ==
    /\ pc = "pf_raise"
    /\ idx = 2
    /\ CurrentFile.openable
    /\ opened >= 2
    /\ handles = {}

\* C3: process_file raises, and returns no pair, exactly when the file does not
\* exist, cannot be opened, has no variables, or the mode is argo and none of
\* PRES, TEMP, PSAL is present; otherwise it returns a pair whose metadata
\* carries the file's hash and path.
C3_RaisesExactlyOnInvalidFiles ==
    \A i \in 1..Len(calls) :
        LET c == calls[i]
        IN  /\ (c.outcome = "raised") <=> ~Processable(c.path, mode)
            /\ c.outcome = "raised" => c.pair = NoPair
            /\ c.outcome = "returned" =>
                  /\ Len(c.pair) = 2
                  /\ Holds(c.pair[1], "file_hash", FileSystem[c.path].hash)
                  /\ Holds(c.pair[1], "file_path", c.path)

\* in argo mode a file without any required variable raised and a file with
\* one required variable returned a pair
C3_Witness ==
    /\ mode = "argo"
    /\ \E i, j \in 1..Len(calls) :
          /\ calls[i].outcome = "raised"
          /\ FileSystem[calls[i].path].openable
          /\ Len(FileSystem[calls[i].path].dataset.variables) > 0
          /\ calls[j].outcome = "returned"
          /\ Cardinality(RequiredPresent(FileSystem[calls[j].path].dataset)) = 1

\* C11: validate_file returns False exactly when the file does not exist, cannot
\* be opened, has no variables, or the mode is "argo" and none of PRES, TEMP,
\* PSAL is a variable of the dataset; in every other mode it returns True for
\* every existing, openable file with at least one variable, whatever the
\* file's extension.
C11_ValidateFileVerdict ==
    /\ pc = "pf_raise" => ~Processable(CurrentPath, mode)
    /\ pc = "pf_open" =>
          /\ Processable(CurrentPath, mode)
          /\ handles = {}
    /\ (pc \in {"pf_raise", "pf_open"} /\ mode # "argo") =>
          (pc = "pf_open" <=>
              /\ CurrentFile.exists
              /\ CurrentFile.openable
              /\ Len(CurrentFile.dataset.variables) > 0)

\* outside argo mode, a file with an unusual extension and none of the required
\* variables passed validation
C11_Witness ==
    /\ pc = "pf_open"
    /\ mode # "argo"
    /\ UnusualExtension(CurrentFile)
    /\ RequiredPresent(CurrentFile.dataset) = {}

---------------------------------------------------------------------------
(* Claims about the processing mode *)

\* the string given last, at construction or to set_mode
LastGiven == mode_history[Len(mode_history)]

\* C12: after construction with any mode string and after any sequence of
\* set_mode calls, the mode is one of "argo", "flexible", "auto": a valid
\* string is stored as given and an invalid one, given at construction or at
\* runtime, results in "flexible".
C12_ModeAlwaysValid ==
    mode_history # <<>> =>
        /\ mode \in valid_modes
        /\ LastGiven \in valid_modes => mode = LastGiven
        /\ LastGiven \notin valid_modes => mode = "flexible"

\* the part of C12 that holds: once set_mode has been called, the mode is valid
C12_ValidAfterSetMode ==
    Len(mode_history) > 1 =>
        /\ mode \in valid_modes
        /\ LastGiven \in valid_modes => mode = LastGiven
        /\ LastGiven \notin valid_modes => mode = "flexible"

\* the variable of a dataset with one of the given names, if it has one
NamedAmong(d, names) ==
    {j \in 1..Len(d.variables) : d.variables[j].name \in names}

TheVar(d, names) == d.variables[CHOOSE j \in NamedAmong(d, names) : TRUE]

LatitudeNames == {<<"L","A","T","I","T","U","D","E">>, <<"l","a","t">>}
LongitudeNames == {<<"L","O","N","G","I","T","U","D","E">>, <<"l","o","n">>}
DepthWords == {<<"d","e","p","t","h">>, <<"z">>, <<"l","e","v","e","l">>}

\* the file of the end-to-end scenario: one vertical dimension of n levels,
\* TEMP, PSAL and PRES of length n with numeric values, scalar numeric
\* latitude and longitude variables, no variable named as a depth
IsProfileScenario(d) ==
    /\ Len(d.sizes) = 1
    /\ \A name \in {<<"T","E","M","P">>, <<"P","S","A","L">>, <<"P","R","E","S">>} :
          /\ NamedAmong(d, {name}) # {}
          /\ TheVar(d, {name}).shape = <<d.sizes[1].size>>
          /\ \A i \in 1..d.sizes[1].size : TheVar(d, {name}).data[i].k = "num"
    /\ \A names \in {LatitudeNames, LongitudeNames} :
          /\ NamedAmong(d, names) # {}
          /\ TheVar(d, names).shape = <<>>
          /\ TheVar(d, names).data[1].k = "num"
    /\ \A j \in 1..Len(d.variables) : \A w \in DepthWords :
          ~contains(lower(d.variables[j].name), w)

\* C19: for a file of the end-to-end scenario process_file yields one record
\* per level, in level order, whose temperature, salinity and pressure are the
\* source values at that level, whose depth equals its pressure and whose
\* quality flag is 1, and metadata whose latitude and longitude are the
\* file's values and whose classification is the profile type.
C19_EndToEndProfile ==
    \A c \in 1..Len(calls) :
        LET d == FileSystem[calls[c].path].dataset
        IN  (FileSystem[calls[c].path].openable /\ IsProfileScenario(d)) =>
                /\ calls[c].outcome = "returned"
                /\ LET meta == calls[c].pair[1]
                       recs == calls[c].pair[2]
                   IN  /\ Len(recs) = d.sizes[1].size
                       /\ \A i \in 1..Len(recs) :
                             /\ recs[i]["temperature"] = TheVar(d, {<<"T","E","M","P">>}).data[i]
                             /\ recs[i]["salinity"] = TheVar(d, {<<"P","S","A","L">>}).data[i]
                             /\ recs[i]["pressure"] = TheVar(d, {<<"P","R","E","S">>}).data[i]
                             /\ recs[i]["depth"] = recs[i]["pressure"]
                             /\ recs[i]["quality_flag"] = 1
                       /\ Holds(meta, "latitude", TheVar(d, LatitudeNames).data[1])
                       /\ Holds(meta, "longitude", TheVar(d, LongitudeNames).data[1])
                       /\ Holds(meta, "file_type", "argo")

\* the two-level file of the scenario was processed: two records, latitude 12
C19_Witness ==
    \E c \in 1..Len(calls) :
        /\ IsProfileScenario(FileSystem[calls[c].path].dataset)
        /\ calls[c].outcome = "returned"
        /\ Len(calls[c].pair[2]) = 2
        /\ calls[c].pair[2][2]["depth"] = Num(100)
        /\ Holds(calls[c].pair[1], "latitude", Num(12))

---------------------------------------------------------------------------
(* Claims about the transformer *)

\* the inclusive ranges as the documentation states them
StatedRanges ==
    [temperature |-> <<-5, 50>>, salinity |-> <<0, 50>>, pressure |-> <<0, 10000>>,
     depth |-> <<0, 10000>>, oxygen |-> <<0, 500>>, nitrate |-> <<0, 100>>,
     ph |-> <<6, 9>>, chlorophyll |-> <<0, 100>>]

WithinStated(x, param) ==
    /\ ~isna(x)
    /\ StatedRanges[param][1] * x.d <= x.n
    /\ x.n <= StatedRanges[param][2] * x.d

OutOfStated(x, param) == ~isna(x) /\ ~WithinStated(x, param)

\* the frame first given to the transformer and the frame the call returned
GivenFrame == frames[1]
ReturnedFrame == frames[2]

\* the cells of the given row with an index label
GivenCells(index) == GivenFrame.rows[index].cells

RangedColumns(df) == df.columns \cap DOMAIN StatedRanges

\* C14: after clean_measurements every parameter value that is present lies
\* within its inclusive range; a value that was out of range is missing and
\* the quality flag of its record, when records have one, is 4; a record
\* whose values were all in range keeps its values and its quality flag.
C14_RangeClipping ==
    ops = <<"clean_measurements">> =>
        \A k \in 1..Len(ReturnedFrame.rows) :
            LET r == ReturnedFrame.rows[k]
                given == GivenCells(r.index)
                params == RangedColumns(GivenFrame)
            IN  /\ \A p \in params :
                      /\ ~isna(r.cells[p]) => WithinStated(r.cells[p], p)
                      /\ OutOfStated(given[p], p) =>
                            /\ isna(r.cells[p])
                            /\ "quality_flag" \in GivenFrame.columns =>
                                   r.cells["quality_flag"] = Float(4, 1)
                /\ (\A p \in params : ~OutOfStated(given[p], p)) => r.cells = given

\* a returned record lost an out-of-range temperature and got flag 4 while
\* another, holding the maximum itself, came back unchanged
C14_Witness ==
    /\ ops = <<"clean_measurements">>
    /\ {"temperature", "quality_flag"} \subseteq GivenFrame.columns
    /\ \E i, j \in 1..Len(ReturnedFrame.rows) :
          LET r == ReturnedFrame.rows[i]
              q == ReturnedFrame.rows[j]
          IN  /\ OutOfStated(GivenCells(r.index)["temperature"], "temperature")
              /\ GivenCells(r.index)["quality_flag"] = Float(1, 1)
              /\ isna(r.cells["temperature"])
              /\ r.cells["quality_flag"] = Float(4, 1)
              /\ q.cells = GivenCells(q.index)
              /\ q.cells["temperature"] = Tenths(500)

\* the index labels of the returned rows, in order
ReturnedIndex == [k \in 1..Len(ReturnedFrame.rows) |-> ReturnedFrame.rows[k].index]

IsReturned(index) == \E k \in 1..Len(ReturnedIndex) : ReturnedIndex[k] = index

\* ascending in a column, rows without a value last
Ascending(rows, column) ==
    \A i, j \in 1..Len(rows) : i < j =>
        /\ ~Less(rows[j].cells[column], rows[i].cells[column])
        /\ isna(rows[i].cells[column]) => isna(rows[j].cells[column])

NoRepeatedDepth(rows) ==
    \A i, j \in 1..Len(rows) : i # j => rows[i].cells["depth"] # rows[j].cells["depth"]

\* C15 as stated: with a depth field, no two returned records have the same
\* depth, for each depth shared by several given records the one kept is the
\* first of them in the given order, and the result is ascending by depth;
\* without a depth field the result is ascending by pressure.
C15_FirstOfEachDepthKept ==
    ops = <<"clean_measurements">> =>
        /\ "depth" \in GivenFrame.columns =>
              /\ NoRepeatedDepth(ReturnedFrame.rows)
              /\ Ascending(ReturnedFrame.rows, "depth")
              /\ \A i, j \in 1..Len(GivenFrame.rows) :
                    (/\ i < j
                     /\ ~isna(GivenCells(i)["depth"])
                     /\ GivenCells(i)["depth"] = GivenCells(j)["depth"]
                     /\ \A h \in 1..(i - 1) : GivenCells(h)["depth"] # GivenCells(i)["depth"])
                    => IsReturned(i) /\ ~IsReturned(j)
        /\ ("depth" \notin GivenFrame.columns /\ "pressure" \in GivenFrame.columns) =>
              Ascending(ReturnedFrame.rows, "pressure")

\* a given record with at least one measurement value: step 1 keeps it
HasMeasurement(index) ==
    \E c \in measurement_cols \cap GivenFrame.columns : ~isna(GivenCells(index)[c])

\* the depth a given record has once an out-of-range depth counts as missing
ClippedDepth(index) ==
    IF OutOfStated(GivenCells(index)["depth"], "depth") THEN nan
    ELSE GivenCells(index)["depth"]

\* C15, amended: the records compared are those with at least one measurement
\* value, an out-of-range depth counting as missing. With a depth field the
\* returned records are exactly the first record of each such depth, no two
\* have the same depth, and they are ascending by depth, a record without
\* depth last; without a depth field the records with a measurement value are
\* all returned, ascending by pressure.
C15_FirstOfEachDepthAmongKept ==
    ops = <<"clean_measurements">> =>
        /\ "depth" \in GivenFrame.columns =>
              /\ NoRepeatedDepth(ReturnedFrame.rows)
              /\ Ascending(ReturnedFrame.rows, "depth")
              /\ \A i \in 1..Len(GivenFrame.rows) :
                    IsReturned(i) <=>
                        /\ HasMeasurement(i)
                        /\ \A h \in 1..(i - 1) :
                              HasMeasurement(h) => ClippedDepth(h) # ClippedDepth(i)
        /\ ("depth" \notin GivenFrame.columns /\ "pressure" \in GivenFrame.columns) =>
              /\ Ascending(ReturnedFrame.rows, "pressure")
              /\ \A i \in 1..Len(GivenFrame.rows) : IsReturned(i) <=> HasMeasurement(i)
        /\ \A k, l \in 1..Len(ReturnedIndex) : k # l => ReturnedIndex[k] # ReturnedIndex[l]

\* two records with a measurement value share a depth and only the first is
\* returned, after a record of smaller depth that was given last
C15_Witness ==
    /\ ops = <<"clean_measurements">>
    /\ "depth" \in GivenFrame.columns
    /\ \E i, j \in 1..Len(GivenFrame.rows) :
          /\ i < j
          /\ HasMeasurement(i) /\ HasMeasurement(j)
          /\ ~isna(ClippedDepth(i))
          /\ ClippedDepth(i) = ClippedDepth(j)
          /\ IsReturned(i) /\ ~IsReturned(j)

\* two records given in descending depth order came back ascending
C15_WitnessSorted ==
    /\ ops = <<"clean_measurements">>
    /\ "depth" \in GivenFrame.columns
    /\ Len(ReturnedIndex) >= 2
    /\ ReturnedIndex[1] > ReturnedIndex[2]
    /\ Less(ReturnedFrame.rows[1].cells["depth"], ReturnedFrame.rows[2].cells["depth"])

\* the value a row holds in a column, nan when the frame lacks the column
CellOr(df, k, column) ==
    IF column \in df.columns THEN df.rows[k].cells[column] ELSE nan

\* C16: interpolate_missing_depth is idempotent; one application sets depth to
\* pressure exactly where depth is missing and pressure is present and leaves
\* every other field and every present depth unchanged.
C16_BackfillIdempotent ==
    /\ \A a \in 2..Len(frames) :
          ops[a - 1] = "interpolate_missing_depth" =>
              LET before == frames[a - 1]
                  after == frames[a]
              IN  /\ Len(after.rows) = Len(before.rows)
                  /\ before.columns \subseteq after.columns
                  /\ after.columns \ before.columns \subseteq {"depth"}
                  /\ \A k \in 1..Len(before.rows) :
                        /\ after.rows[k].index = before.rows[k].index
                        /\ \A c \in before.columns \ {"depth"} :
                              after.rows[k].cells[c] = before.rows[k].cells[c]
                        /\ CellOr(after, k, "depth") =
                              IF isna(CellOr(before, k, "depth"))
                              THEN CellOr(before, k, "pressure")
                              ELSE CellOr(before, k, "depth")
    /\ \A a \in 3..Len(frames) :
          (ops[a - 1] = "interpolate_missing_depth" /\ ops[a - 2] = "interpolate_missing_depth")
              => frames[a] = frames[a - 1]

\* applied twice to a frame in which one record lacks depth and has pressure
\* and another has a depth different from its pressure: the first
\* application changed the frame, the second did not
C16_Witness ==
    /\ Len(frames) = 3
    /\ ops = <<"interpolate_missing_depth", "interpolate_missing_depth">>
    /\ frames[2] # frames[1]
    /\ frames[3] = frames[2]
    /\ \E i, j \in 1..Len(frames[1].rows) :
          /\ isna(CellOr(frames[1], i, "depth"))
          /\ ~isna(CellOr(frames[1], i, "pressure"))
          /\ ~isna(CellOr(frames[1], j, "depth"))
          /\ ~isna(CellOr(frames[1], j, "pressure"))
          /\ CellOr(frames[1], j, "depth") # CellOr(frames[1], j, "pressure")

\* the given records at depth <= 10 that have a temperature
SurfaceRecords ==
    {i \in 1..Len(GivenFrame.rows) :
        /\ ~isna(GivenCells(i)["depth"])
        /\ GivenCells(i)["depth"].n <= 10 * GivenCells(i)["depth"].d
        /\ ~isna(GivenCells(i)["temperature"])}

\* a given record's temperature is more than 0.2 from the mean temperature
\* of the surface records: 5 * |k * t - sum| > k for k surface records
Departs(i) ==
    LET t == GivenCells(i)["temperature"]
        k == Cardinality(SurfaceRecords)
        total == Sum([j \in 1..Len(GivenFrame.rows) |->
                        IF j \in SurfaceRecords THEN GivenCells(j)["temperature"] ELSE nan])
        diff == k * t.n * total.d - total.n * t.d
    IN  /\ ~isna(t)
        /\ 5 * (IF diff < 0 THEN -diff ELSE diff) > k * t.d * total.d

Departing == {i \in 1..Len(GivenFrame.rows) : Departs(i)}

\* the departing record i has a depth and no departing record is shallower
Shallowest(i) ==
    /\ i \in Departing
    /\ ~isna(GivenCells(i)["depth"])
    /\ \A j \in Departing : ~Less(GivenCells(j)["depth"], GivenCells(i)["depth"])

\* C17: with a surface reference, the mixed-layer depth assigned is the
\* shallowest depth among the records whose temperature is more than 0.2 from
\* the surface mean, whatever the order of the records; with no such record,
\* or no surface reference, none is assigned.
C17_ShallowestDeparture ==
    (ops = <<"calculate_derived_parameters">> /\ {"depth", "temperature"} \subseteq GivenFrame.columns) =>
        IF SurfaceRecords # {} /\ Departing # {}
        THEN /\ "mixed_layer_depth" \in ReturnedFrame.columns
             /\ \A i \in Departing : Shallowest(i) =>
                    \A k \in 1..Len(ReturnedFrame.rows) :
                        ReturnedFrame.rows[k].cells["mixed_layer_depth"] = GivenCells(i)["depth"]
        ELSE "mixed_layer_depth" \notin ReturnedFrame.columns

\* what the code does assign: the depth of the first departing record in the
\* order given, which is the shallowest when the records are ascending by depth
C17_FirstDepartureInOrder ==
    (ops = <<"calculate_derived_parameters">> /\ {"depth", "temperature"} \subseteq GivenFrame.columns) =>
        IF SurfaceRecords # {} /\ Departing # {}
        THEN /\ "mixed_layer_depth" \in ReturnedFrame.columns
             /\ \A k \in 1..Len(ReturnedFrame.rows) :
                    ReturnedFrame.rows[k].cells["mixed_layer_depth"]
                        = GivenCells(Min(Departing))["depth"]
             /\ Ascending(GivenFrame.rows, "depth") =>
                    \/ Shallowest(Min(Departing))
                    \/ \A i \in Departing : isna(GivenCells(i)["depth"])
        ELSE "mixed_layer_depth" \notin ReturnedFrame.columns

\* the given values of the parameter that are not missing, without record i
OtherValues(i) ==
    {GivenCells(j)["temperature"] : j \in {h \in 1..Len(GivenFrame.rows) :
        h # i /\ ~isna(GivenCells(h)["temperature"])}}

PresentCount ==
    Cardinality({h \in 1..Len(GivenFrame.rows) : ~isna(GivenCells(h)["temperature"])})

\* record i lies further from all other values than 1.5 times their whole
\* range, so it is beyond the 1.5 x IQR fence whatever the quartiles are
FarOutside(i) ==
    LET x == GivenCells(i)["temperature"]
        others == OtherValues(i)
        hi == CHOOSE v \in others : \A w \in others : ~Less(v, w)
        lo == CHOOSE v \in others : \A w \in others : ~Less(w, v)
        reach == Times(Float(3, 2), Minus(hi, lo))
    IN  /\ ~isna(x)
        /\ others # {}
        /\ Less(Plus(hi, reach), x) \/ Less(x, Minus(lo, reach))

Flagged(k) ==
    /\ "anomaly_flag" \in ReturnedFrame.columns
    /\ ReturnedFrame.rows[k].cells["anomaly_flag"] = Bool(TRUE)

\* C18: with fewer than 10 non-missing values of the parameter no record is
\* flagged, whatever the spread; with 10 or more, a single value lying far
\* outside the others is flagged.
C18_AnomalySampleFloor ==
    (Len(ops) = 2 /\ ops[1] = "detect_anomalies" /\ ops[2] = "temperature") =>
        /\ Len(ReturnedFrame.rows) = Len(GivenFrame.rows)
        /\ PresentCount < 10 => \A k \in 1..Len(ReturnedFrame.rows) : ~Flagged(k)
        /\ PresentCount >= 10 =>
              \A k \in 1..Len(ReturnedFrame.rows) : FarOutside(k) => Flagged(k)

\* ten values, one far outside the others: that one is flagged, the others not
C18_Witness ==
    /\ Len(ops) = 2 /\ ops[1] = "detect_anomalies" /\ ops[2] = "temperature"
    /\ PresentCount = 10
    /\ \E k \in 1..Len(ReturnedFrame.rows) :
          /\ FarOutside(k)
          /\ Flagged(k)
          /\ \A j \in 1..Len(ReturnedFrame.rows) : j # k => ~Flagged(j)

\* nine values, one of them far outside the others, and no record flagged
C18_WitnessNine ==
    /\ Len(ops) = 2 /\ ops[1] = "detect_anomalies" /\ ops[2] = "temperature"
    /\ PresentCount = 9
    /\ \E k \in 1..Len(ReturnedFrame.rows) : FarOutside(k)
    /\ \A k \in 1..Len(ReturnedFrame.rows) : ~Flagged(k)

\* every measurement field of the returned row is missing
AllMeasurementsMissing(r) ==
    \A c \in measurement_cols \cap ReturnedFrame.columns : isna(r.cells[c])

\* C26: no record returned by clean_measurements has every measurement field
\* missing, a record whose only values were nulled by range validation in
\* the same call included.
C26_NoEmptyRecordReturned ==
    ops = <<"clean_measurements">> =>
        \A k \in 1..Len(ReturnedFrame.rows) : ~AllMeasurementsMissing(ReturnedFrame.rows[k])

\* what the code ensures: every returned record was given with a measurement
\* value, and every given record without one is absent
C26_GivenEmptyRecordsDiscarded ==
    ops = <<"clean_measurements">> =>
        \A k \in 1..Len(ReturnedFrame.rows) : HasMeasurement(ReturnedFrame.rows[k].index)

\* a record given without any measurement value was discarded next to one
\* that was kept
C26_WitnessDiscarded ==
    /\ ops = <<"clean_measurements">>
    /\ Len(ReturnedFrame.rows) >= 1
    /\ \E i \in 1..Len(GivenFrame.rows) : ~HasMeasurement(i) /\ ~IsReturned(i)

\* a record whose only value was nulled by range validation was returned
C26_WitnessNulledReturned ==
    /\ ops = <<"clean_measurements">>
    /\ \E k \in 1..Len(ReturnedFrame.rows) :
          /\ AllMeasurementsMissing(ReturnedFrame.rows[k])
          /\ HasMeasurement(ReturnedFrame.rows[k].index)

\* create_time_series was called on the cleaned record set
SeriesCalled == Len(ops) = 5 /\ ops[2] = "create_time_series"

CleanedFrame == frames[2]
SeriesReturned == frames[3]
SeriesParameter == ops[3]
SeriesLevels == IF ops[4].given THEN ops[4].levels ELSE <<10, 50, 100, 200, 500, 1000>>
SeriesOutcome == ops[5]

\* the distance in depth from a cleaned record to a level, nan without depth
Distance(k, level) ==
    IF "depth" \in CleanedFrame.columns
    THEN Abs(Minus(CleanedFrame.rows[k].cells["depth"], Float(level, 1)))
    ELSE nan

\* the cleaned records nearest in depth to a level
Nearest(level) ==
    {k \in 1..Len(CleanedFrame.rows) :
        /\ ~isna(Distance(k, level))
        /\ \A j \in 1..Len(CleanedFrame.rows) : ~Less(Distance(j, level), Distance(k, level))}

\* the nearest records within 50 m whose parameter value is present
Usable(level) ==
    {k \in Nearest(level) :
        /\ ~Less(Float(50, 1), Distance(k, level))
        /\ SeriesParameter \in CleanedFrame.columns
        /\ ~isna(CleanedFrame.rows[k].cells[SeriesParameter])}

\* the entries returned for a level
EntriesFor(level) ==
    {k \in 1..Len(SeriesReturned.rows) :
        SeriesReturned.rows[k].cells["depth_level"] = Float(level, 1)}

\* C27: for any cleaned record set and each requested depth level,
\* create_time_series emits an entry for the level exactly when the record
\* nearest in depth is within 50 m and its parameter value is present, and
\* the entry holds that record's value and actual depth.
C27_NearestWithinTolerance ==
    SeriesCalled =>
        /\ SeriesOutcome = "returned"
        /\ \A i \in 1..Len(SeriesLevels) :
              LET level == SeriesLevels[i]
              IN  /\ Usable(level) = {} => EntriesFor(level) = {}
                  /\ Usable(level) # {} =>
                        /\ Cardinality(EntriesFor(level)) = 1
                        /\ \E k \in Usable(level) : \A n \in EntriesFor(level) :
                              /\ SeriesReturned.rows[n].cells["value"] =
                                     CleanedFrame.rows[k].cells[SeriesParameter]
                              /\ SeriesReturned.rows[n].cells["actual_depth"] =
                                     CleanedFrame.rows[k].cells["depth"]

\* the cleaned records are labelled by their positions and one has a depth
LabelsArePositions ==
    /\ \A k \in 1..Len(CleanedFrame.rows) : CleanedFrame.rows[k].index = k
    /\ "depth" \in CleanedFrame.columns =>
          (CleanedFrame.rows = <<>> \/ \E k \in 1..Len(CleanedFrame.rows) :
              ~isna(CleanedFrame.rows[k].cells["depth"]))

\* C27 for record sets that cleaning left labelled 0..n-1
C27_WhenLabelsArePositions ==
    (SeriesCalled /\ LabelsArePositions) =>
        /\ SeriesOutcome = "returned"
        /\ \A i \in 1..Len(SeriesLevels) :
              LET level == SeriesLevels[i]
              IN  /\ Usable(level) = {} => EntriesFor(level) = {}
                  /\ Usable(level) # {} =>
                        /\ Cardinality(EntriesFor(level)) = 1
                        /\ \E k \in Usable(level) : \A n \in EntriesFor(level) :
                              /\ SeriesReturned.rows[n].cells["value"] =
                                     CleanedFrame.rows[k].cells[SeriesParameter]
                              /\ SeriesReturned.rows[n].cells["actual_depth"] =
                                     CleanedFrame.rows[k].cells["depth"]

\* one level got its entry from a record 50 m away while another level, with
\* no record within 50 m, got none
C27_WitnessEntry ==
    /\ SeriesCalled
    /\ LabelsArePositions
    /\ \E i, j \in 1..Len(SeriesLevels) :
          /\ Usable(SeriesLevels[i]) # {}
          /\ \E k \in Usable(SeriesLevels[i]) :
                ~Less(Distance(k, SeriesLevels[i]), Float(50, 1))
          /\ EntriesFor(SeriesLevels[i]) # {}
          /\ Nearest(SeriesLevels[j]) # {}
          /\ Usable(SeriesLevels[j]) = {}
          /\ EntriesFor(SeriesLevels[j]) = {}

\* cleaning reordered the records and the call raised
C27_WitnessRaised ==
    /\ SeriesCalled
    /\ SeriesOutcome = "raised"
    /\ \E k \in 1..Len(CleanedFrame.rows) : ~isna(CleanedFrame.rows[k].cells["depth"])

\* cleaning reordered the records and a level with a usable nearest record
\* got no entry
C27_WitnessEntryLost ==
    /\ SeriesCalled
    /\ SeriesOutcome = "returned"
    /\ \E i \in 1..Len(SeriesLevels) :
          Usable(SeriesLevels[i]) # {} /\ EntriesFor(SeriesLevels[i]) = {}

\* C29: duplicate-depth removal merges only records whose depths are present
\* and equal: every record with a missing depth (never resolved, or nulled by
\* range validation) and at least one present measurement is returned, and a
\* record with a measurement that is not returned has the present depth of an
\* earlier one.
C29_MissingDepthNotMerged ==
    (ops = <<"clean_measurements">> /\ "depth" \in GivenFrame.columns) =>
        \A i \in 1..Len(GivenFrame.rows) :
            /\ (HasMeasurement(i) /\ isna(ClippedDepth(i))) => IsReturned(i)
            /\ (HasMeasurement(i) /\ ~IsReturned(i)) =>
                  \E h \in 1..(i - 1) :
                      ~isna(ClippedDepth(h)) /\ ClippedDepth(h) = ClippedDepth(i)

\* what holds of the records without depth: the first of them with a
\* measurement is returned
C29_FirstMissingDepthReturned ==
    (ops = <<"clean_measurements">> /\ "depth" \in GivenFrame.columns) =>
        \A i \in 1..Len(GivenFrame.rows) :
            (/\ HasMeasurement(i)
             /\ isna(ClippedDepth(i))
             /\ \A h \in 1..(i - 1) : HasMeasurement(h) => ~isna(ClippedDepth(h)))
            => IsReturned(i)

\* two records with a measurement, one without depth and one whose depth was
\* nulled by range validation: only the first came back
C29_WitnessMerged ==
    /\ ops = <<"clean_measurements">>
    /\ "depth" \in GivenFrame.columns
    /\ \E i, j \in 1..Len(GivenFrame.rows) :
          /\ i < j
          /\ HasMeasurement(i) /\ HasMeasurement(j)
          /\ isna(GivenCells(i)["depth"])
          /\ OutOfStated(GivenCells(j)["depth"], "depth")
          /\ IsReturned(i) /\ ~IsReturned(j)

---------------------------------------------------------------------------
(* Claims about profile storage *)

\* the earlier calls that stored a profile with the hash of call i
StoredBefore(i) ==
    {j \in 1..(i - 1) : inserts[j].created /\ inserts[j].file_hash = inserts[i].file_hash}

\* C4: at most one profile row exists per content hash, and an insert_profile
\* call whose hash is that of a stored profile returns the identifier the
\* first insert returned, without raising and without creating a profile
\* (the database being reachable during the call).
C4_OneProfilePerHash ==
    /\ \A r1, r2 \in profiles : r1.file_hash = r2.file_hash => r1 = r2
    /\ Cardinality(profiles) = Cardinality({i \in 1..Len(inserts) : inserts[i].created})
    /\ \A i \in 1..Len(inserts) :
          (StoredBefore(i) # {} /\ inserts[i].reachable) =>
              /\ inserts[i].outcome = "returned"
              /\ inserts[i].id = inserts[Min(StoredBefore(i))].id
              /\ ~inserts[i].created

\* the same hash was inserted twice, between them another profile was stored,
\* and the second call returned the first call's identifier
C4_Witness ==
    /\ Len(inserts) = 3
    /\ inserts[1].created
    /\ inserts[2].created
    /\ inserts[3].file_hash = inserts[1].file_hash
    /\ inserts[3].outcome = "returned"
    /\ inserts[3].id = inserts[1].id
    /\ Cardinality(profiles) = 2

\* the call took the duplicate path: it returned what the lookup by hash gave
TookDuplicatePath(call) == call.outcome = "returned" /\ ~call.created

\* C28: insert_profile takes the duplicate path only when the insert failed
\* because the content hash already exists; every other insert failure (a
\* missing bind parameter, a value too long for its column) is raised.
C28_OnlyDuplicatesTakeDuplicatePath ==
    \A i \in 1..Len(inserts) :
        /\ TookDuplicatePath(inserts[i]) => inserts[i].failure = "unique"
        /\ inserts[i].failure \notin {"ok", "unique"} => inserts[i].outcome = "raised"

\* what holds: a failure to connect is raised, a duplicate hash is not
C28_ConnectionFailureRaised ==
    \A i \in 1..Len(inserts) :
        /\ inserts[i].failure = "connect" => inserts[i].outcome = "raised"
        /\ inserts[i].failure = "unique" => TookDuplicatePath(inserts[i])

\* an insert without platform_number, of a hash never stored, returned no
\* identifier instead of raising
C28_WitnessMissingBindReturned ==
    \E i \in 1..Len(inserts) :
        /\ inserts[i].failure = "missing_bind"
        /\ StoredBefore(i) = {}
        /\ inserts[i].outcome = "returned"
        /\ inserts[i].id = NoId

====
